---- MODULE Spec2Model ----
(***************************************************************************)
(* Model of apex-benchmark-cli: the process executor (pkg/executor), the  *)
(* parser, statistics, reporter and generator, and the two commands.       *)
(*                                                                         *)
(* Texts (Go strings) are sequences of tokens; "" is <<>>.  A Go error is  *)
(* a record [isNil, msg] whose msg is the text of err.Error().  A Go slice *)
(* is a sequence (slice index k is position k+1); the nil slice is <<>>.   *)
(***************************************************************************)
EXTENDS Integers, Sequences, FiniteSets, TLC

\* ---------------------------------------------------------------- bounds
MaxRuns == 3
MaxConcurrent == 2
NumTempNames == 2

Tasks == 0 .. (MaxRuns - 1)
\* The caller's own goroutine, when it calls Run directly.
DirectCall == 0 - 1
Callers == Tasks \cup {DirectCall}
RunsArgs == (-1) .. MaxRuns
MaxConcurrentArgs == (-1) .. MaxConcurrent
TempNames == 1 .. NumTempNames

\* ---------------------------------------------------------------- texts
Digit == <<"0", "1", "2", "3", "4", "5", "6", "7", "8", "9">>

RECURSIVE Itoa(_)
Itoa(n) ==
    IF n < 0 THEN <<"-">> \o Itoa(0 - n)
    ELSE IF n < 10 THEN <<Digit[n + 1]>>
    ELSE Itoa(n \div 10) \o <<Digit[(n % 10) + 1]>>

RECURSIVE Join(_, _)
Join(elems, sep) ==
    IF elems = <<>> THEN <<>>
    ELSE IF Len(elems) = 1 THEN elems[1]
    ELSE elems[1] \o sep \o Join(Tail(elems), sep)

\* --------------------------------------------------------------- errors
NilErr == [isNil |-> TRUE, msg |-> <<>>]
Errorf(msg) == [isNil |-> FALSE, msg |-> msg]

\* --------------------------------------------- the external runner (sf)
\* Combined output texts the runner can write.  The JSON object is
\* flattened: the key "success" stands for result.success, and so on.
OutSuccessA ==
    <<"{", "success", "true", "compiled", "true",
      "logs", "USER_DEBUG|BENCH_RESULT:a", "}">>
OutSuccessB ==
    <<"{", "success", "true", "compiled", "true",
      "logs", "USER_DEBUG|BENCH_RESULT:b", "}">>
OutCompileFail ==
    <<"{", "success", "false", "compiled", "false",
      "compileProblem", "Unexpected token", "line", "5", "}">>
OutExecFail ==
    <<"{", "success", "false", "compiled", "true",
      "exceptionMessage", "System.NullPointerException", "}">>
OutSuccessNotCompiled ==
    <<"{", "success", "true", "compiled", "false",
      "logs", "USER_DEBUG|BENCH_RESULT:c", "}">>
OutEmptyObject == <<"{", "}">>
OutNotJSON ==
    <<"Warning: update available", "{", "success", "true",
      "logs", "USER_DEBUG|BENCH_RESULT:a", "}">>

ExitOutputs ==
    {OutSuccessA, OutSuccessB, OutSuccessNotCompiled, OutCompileFail,
     OutExecFail, OutEmptyObject, OutNotJSON}

\* cmd.CombinedOutput(): the error (nil on exit status 0) and the output.
ProcOutcomes ==
    [err : {NilErr}, output : ExitOutputs]
    \cup {[err |-> Errorf(<<"exit status 1">>), output |-> OutCompileFail],
          [err |-> Errorf(<<"exit status 1">>), output |-> OutSuccessA],
          [err |-> Errorf(<<"exec: sf: executable file not found">>),
           output |-> <<>>]}

\* What the runs of a parallel batch draw from: ExecuteParallel looks at
\* nothing of a run's outcome but its error being nil or not, so one
\* failure of each path through Run's caller is kept.
ParallelProcOutcomes ==
    [err : {NilErr}, output : {OutSuccessA, OutSuccessB, OutExecFail}]
    \cup {[err |-> Errorf(<<"exit status 1">>), output |-> OutCompileFail]}

\* ------------------------------------------------------ ApexRunResponse
BoolKeys == {"success", "compiled"}
StringKeys == {"compileProblem", "exceptionMessage", "logs"}

ZeroResponse ==
    [success |-> FALSE, compiled |-> FALSE, compileProblem |-> <<>>,
     exceptionMessage |-> <<>>, logs |-> <<>>]

RECURSIVE Decode(_, _)
Decode(pairs, resp) ==
    IF pairs = <<>> THEN [ok |-> TRUE, response |-> resp]
    ELSE LET k == pairs[1]
             v == pairs[2]
             rest == SubSeq(pairs, 3, Len(pairs))
         IN  IF k \in BoolKeys
             THEN IF v \in {"true", "false"}
                  THEN Decode(rest, [resp EXCEPT ![k] = (v = "true")])
                  ELSE [ok |-> FALSE, response |-> resp]
             ELSE IF k \in StringKeys
             THEN Decode(rest, [resp EXCEPT ![k] = <<v>>])
             ELSE Decode(rest, resp)

\* json.Unmarshal(output, &response)
Unmarshal(text) ==
    IF \/ Len(text) < 2
       \/ text[1] # "{"
       \/ text[Len(text)] # "}"
       \/ (Len(text) - 2) % 2 # 0
    THEN [ok |-> FALSE, response |-> ZeroResponse]
    ELSE Decode(SubSeq(text, 2, Len(text) - 1), ZeroResponse)

\* ------------------------------------------------------------------ Run
\* createTempApexFile's outcomes: "ok", os.CreateTemp failed, Write failed.
TempOutcomes == {"ok", "createFail", "writeFail"}
ParallelTempOutcomes == {"ok", "createFail"}

CreateTempError(outcome) ==
    IF outcome = "createFail"
    THEN Errorf(<<"failed to create temp file: ", "open: no space left">>)
    ELSE IF outcome = "writeFail"
    THEN Errorf(<<"failed to write temp file: ", "write: no space left">>)
    ELSE NilErr

\* Run's return value when createTempApexFile failed with err.
RunTempFailure(err) ==
    [output |-> <<>>,
     err |-> Errorf(<<"failed to create temp file: ">> \o err.msg)]

\* Faulty variant: the compiled flag consulted before the success flag.
RunAfterCommandCompiledFirst(proc) ==
    IF ~proc.err.isNil
    THEN [output |-> <<>>,
          err |-> Errorf(<<"sf apex run failed: ">> \o proc.err.msg
                         \o <<"\nOutput: ">> \o proc.output)]
    ELSE LET parsed == Unmarshal(proc.output)
             response == parsed.response
         IN  IF ~parsed.ok
             THEN [output |-> <<>>,
                   err |-> Errorf(<<"failed to parse sf apex run JSON output: ",
                                    "invalid character", "\nOutput: ">>
                                  \o proc.output)]
             ELSE IF ~response.compiled
             THEN [output |-> <<>>,
                   err |-> Errorf(<<"Apex compilation failed: ">>
                                  \o response.compileProblem)]
             ELSE IF ~response.success
             THEN [output |-> <<>>,
                   err |-> Errorf(<<"Apex execution failed: ">>
                                  \o response.exceptionMessage)]
             ELSE [output |-> response.logs, err |-> NilErr]

\* Faulty variant: the whole output of the subprocess returned on success.
RunAfterCommandWholeOutput(proc) ==
    IF ~proc.err.isNil
    THEN [output |-> <<>>,
          err |-> Errorf(<<"sf apex run failed: ">> \o proc.err.msg
                         \o <<"\nOutput: ">> \o proc.output)]
    ELSE LET parsed == Unmarshal(proc.output)
             response == parsed.response
         IN  IF ~parsed.ok
             THEN [output |-> <<>>,
                   err |-> Errorf(<<"failed to parse sf apex run JSON output: ",
                                    "invalid character", "\nOutput: ">>
                                  \o proc.output)]
             ELSE IF ~response.success
             THEN IF ~response.compiled
                  THEN [output |-> <<>>,
                        err |-> Errorf(<<"Apex compilation failed: ">>
                                       \o response.compileProblem)]
                  ELSE [output |-> <<>>,
                        err |-> Errorf(<<"Apex execution failed: ">>
                                       \o response.exceptionMessage)]
             ELSE [output |-> proc.output, err |-> NilErr]

\* Run's return value after cmd.CombinedOutput() returned proc.
RunAfterCommand(proc) ==
    IF ~proc.err.isNil
    THEN [output |-> <<>>,
          err |-> Errorf(<<"sf apex run failed: ">> \o proc.err.msg
                         \o <<"\nOutput: ">> \o proc.output)]
    ELSE LET parsed == Unmarshal(proc.output)
             response == parsed.response
         IN  IF ~parsed.ok
             THEN [output |-> <<>>,
                   err |-> Errorf(<<"failed to parse sf apex run JSON output: ",
                                    "invalid character", "\nOutput: ">>
                                  \o proc.output)]
             ELSE IF ~response.success
             THEN IF ~response.compiled
                  THEN [output |-> <<>>,
                        err |-> Errorf(<<"Apex compilation failed: ">>
                                       \o response.compileProblem)]
                  ELSE [output |-> <<>>,
                        err |-> Errorf(<<"Apex execution failed: ">>
                                       \o response.exceptionMessage)]
             ELSE [output |-> response.logs, err |-> NilErr]

\* ------------------------------------- the executor's two entry points
VARIABLES
    api,            \* which method the command calls (run_test.go:279-289)
    runs,           \* argument runs
    maxConcurrent,  \* argument maxConcurrent
    mainPc,         \* position of the caller's goroutine
    i,              \* loop variable of the launching loop
    wg,             \* sync.WaitGroup counter
    semSize,        \* semaphore.Weighted: size (0 before NewWeighted)
    semCur,         \* semaphore.Weighted: permits held
    waiters,        \* semaphore.Weighted: FIFO list of blocked acquirers
    pc,             \* position of each goroutine that calls Run
    tempFile,       \* each Run's temp file ({} if it holds none)
    files,          \* temporary files that exist on disk
    results,        \* results slice
    errors,         \* errors slice
    runCalls,       \* number of times each caller has invoked Run
    env,            \* what the environment did to each Run
    runReturn,      \* what each Run returned
    retResults,     \* ExecuteParallel's returned slice
    retErr          \* ExecuteParallel's returned error

\* The single-threaded components (auth check, parser, stats, reporter,
\* generator, commands) are exercised one call at a time.
VARIABLES
    fn,             \* the function called ("" when none is)
    fnArg,          \* its argument
    fnDone,         \* whether it has returned
    fnRet,          \* its return value
    cmdPc,          \* position inside a command (runBenchmark, compare)
    cmdLocal,       \* the command's local variables
    sfCalls         \* the sf subcommands the command has invoked, in order

execVars ==
    <<api, runs, maxConcurrent, mainPc, i, wg, semSize, semCur, waiters, pc,
      tempFile, files, results, errors, runCalls, env, runReturn,
      retResults, retErr>>

compVars == <<fn, fnArg, fnDone, fnRet, cmdPc, cmdLocal, sfCalls>>

vars ==
    <<api, runs, maxConcurrent, mainPc, i, wg, semSize, semCur, waiters, pc,
      tempFile, files, results, errors, runCalls, env, runReturn,
      retResults, retErr, fn, fnArg, fnDone, fnRet, cmdPc, cmdLocal,
      sfCalls>>

\* No component call is in progress.
NoCall ==
    /\ fn = ""
    /\ fnArg = <<>>
    /\ fnDone = FALSE
    /\ fnRet = <<>>
    /\ cmdPc = ""
    /\ cmdLocal = <<>>
    /\ sfCalls = <<>>

NoEnv == [temp |-> "none", proc |-> [err |-> NilErr, output |-> <<>>]]
NoReturn == [output |-> <<>>, err |-> NilErr]

\* The command calls Run when one run is asked for and ExecuteParallel
\* otherwise; ExecuteParallel itself accepts every run count.
Init ==
    /\ api \in {"Run", "ExecuteParallel"}
    /\ runs \in RunsArgs
    /\ api = "Run" => runs = 1
    /\ maxConcurrent \in MaxConcurrentArgs
    /\ mainPc = "call"
    /\ i = 0
    /\ wg = 0
    /\ semSize = 0
    /\ semCur = 0
    /\ waiters = <<>>
    /\ pc = [t \in Callers |-> "idle"]
    /\ tempFile = [t \in Callers |-> {}]
    /\ files = {}
    /\ results = <<>>
    /\ errors = <<>>
    /\ runCalls = [t \in Callers |-> 0]
    /\ env = [t \in Callers |-> NoEnv]
    /\ runReturn = [t \in Callers |-> NoReturn]
    /\ retResults = <<>>
    /\ retErr = NilErr
    /\ NoCall

\* run_test.go:279-286: the command calls Run on its own goroutine.
CallRun ==
    /\ mainPc = "call"
    /\ api = "Run"
    /\ mainPc' = "inRun"
    /\ pc' = [pc EXCEPT ![DirectCall] = "run"]
    /\ UNCHANGED <<api, runs, maxConcurrent, i, wg, semSize, semCur, waiters,
                   tempFile, files, results, errors, runCalls, env, runReturn,
                   retResults, retErr>>
    /\ UNCHANGED compVars

\* Faulty variant: a limit that is not positive taken to mean "no limit".
EffectiveLimitUnlimited(c) == IF c <= 0 THEN MaxRuns + 1 ELSE c

\* The semaphore size NewWeighted is given (lines 112-117).
EffectiveLimit(c) == IF c <= 0 THEN 1 ELSE c

\* Faulty variant: zero runs accepted.
InvalidRunsNegativeOnly(r) == r < 0

\* Line 109: the run counts ExecuteParallel rejects.
InvalidRuns(r) == r <= 0

\* Lines 109-122: the argument check and the allocations.
Enter ==
    /\ mainPc = "call"
    /\ api = "ExecuteParallel"
    /\ IF InvalidRuns(runs)
       THEN /\ mainPc' = "returned"
            /\ retResults' = <<>>
            /\ retErr' = Errorf(<<"runs must be positive, got ">> \o Itoa(runs))
            /\ UNCHANGED <<semSize, results, errors>>
       ELSE /\ mainPc' = "launch"
            /\ semSize' = EffectiveLimit(maxConcurrent)
            /\ results' = [k \in 1 .. runs |-> <<>>]
            /\ errors' = [k \in 1 .. runs |-> NilErr]
            /\ UNCHANGED <<retResults, retErr>>
    /\ UNCHANGED <<api, runs, maxConcurrent, i, wg, semCur, waiters, pc,
                   tempFile, files, runCalls, env, runReturn>>
    /\ UNCHANGED compVars

\* Lines 124-126: one iteration of the launching loop (wg.Add, go func).
Launch ==
    /\ mainPc = "launch"
    /\ i < runs
    /\ wg' = wg + 1
    /\ pc' = [pc EXCEPT ![i] = "acquire"]
    /\ i' = i + 1
    /\ UNCHANGED <<api, runs, maxConcurrent, mainPc, semSize, semCur, waiters,
                   tempFile, files, results, errors, runCalls, env, runReturn,
                   retResults, retErr>>
    /\ UNCHANGED compVars

\* semaphore.Weighted.Acquire(ctx, 1) succeeds at once when a permit is
\* free and nobody is queued; otherwise the caller queues and blocks.
CanAcquire(size, cur, ws) == size - cur >= 1 /\ ws = <<>>

\* Line 130: sem.Acquire(ctx, 1) with a context that is never done.
Acquire(t) ==
    /\ t \in Tasks
    /\ pc[t] = "acquire"
    /\ IF CanAcquire(semSize, semCur, waiters)
       THEN /\ semCur' = semCur + 1
            /\ pc' = [pc EXCEPT ![t] = "run"]
            /\ UNCHANGED waiters
       ELSE /\ waiters' = Append(waiters, t)
            /\ pc' = [pc EXCEPT ![t] = "waiting"]
            /\ UNCHANGED semCur
    /\ UNCHANGED <<api, runs, maxConcurrent, mainPc, i, wg, semSize, tempFile,
                   files, results, errors, runCalls, env, runReturn,
                   retResults, retErr>>
    /\ UNCHANGED compVars

\* Faulty variant: outputs collected in completion order, not by index.
StoreResultsCompletionOrder(res, index, ret) ==
    IF ret.err.isNil
    THEN [res EXCEPT
             ![Cardinality({k \in 1 .. Len(res) : res[k] # <<>>}) + 1] =
                 ret.output]
    ELSE res

\* Lines 138-142: the task stores Run's return value in its own slot.
StoreResults(res, index, ret) ==
    IF ret.err.isNil THEN [res EXCEPT ![index + 1] = ret.output] ELSE res

StoreErrors(errs, index, ret) ==
    IF ret.err.isNil THEN errs ELSE [errs EXCEPT ![index + 1] = ret.err]

\* What follows Run's return: a task stores the value and goes on to its
\* deferred calls; the command's direct call has its answer.
AfterRun(t, ret) ==
    IF t = DirectCall
    THEN /\ pc' = [pc EXCEPT ![t] = "done"]
         /\ mainPc' = "returned"
         /\ UNCHANGED <<results, errors>>
    ELSE /\ pc' = [pc EXCEPT ![t] = "release"]
         /\ results' = StoreResults(results, t, ret)
         /\ errors' = StoreErrors(errors, t, ret)
         /\ UNCHANGED mainPc

\* Lines 68-74: Run calls createTempApexFile (lines 163-176); a failure
\* makes Run return at once, with no file left behind.
CreateTemp(t) ==
    /\ pc[t] = "run"
    /\ runCalls' = [runCalls EXCEPT ![t] = @ + 1]
    /\ \E outcome \in (IF t = DirectCall THEN TempOutcomes
                       ELSE ParallelTempOutcomes) :
        /\ env' = [env EXCEPT ![t].temp = outcome]
        /\ IF outcome = "ok"
           THEN \E name \in TempNames \ files :
                    /\ files' = files \cup {name}
                    /\ tempFile' = [tempFile EXCEPT ![t] = {name}]
                    /\ pc' = [pc EXCEPT ![t] = "exec"]
                    /\ UNCHANGED <<mainPc, results, errors, runReturn>>
           ELSE LET ret == RunTempFailure(CreateTempError(outcome))
                IN  /\ runReturn' = [runReturn EXCEPT ![t] = ret]
                    /\ AfterRun(t, ret)
                    /\ UNCHANGED <<files, tempFile>>
    /\ UNCHANGED <<api, runs, maxConcurrent, i, wg, semSize, semCur,
                   waiters, retResults, retErr>>
    /\ UNCHANGED compVars

\* Faulty variant: the temp file left behind.
RemoveTempForgotten(fs, held) == fs

\* Faulty variant: every temporary file removed, whoever created it.
RemoveTempAll(fs, held) == {}

\* Line 74: defer os.Remove(tempFile), run when Run returns.
RemoveTemp(fs, held) == fs \ held

\* Lines 83-105: the subprocess completes, Run classifies the outcome and
\* returns, its deferred call removing the temp file.
Execute(t) ==
    /\ pc[t] = "exec"
    /\ \E proc \in (IF t = DirectCall THEN ProcOutcomes
                    ELSE ParallelProcOutcomes) :
        LET ret == RunAfterCommand(proc)
        IN  /\ env' = [env EXCEPT ![t].proc = proc]
            /\ runReturn' = [runReturn EXCEPT ![t] = ret]
            /\ AfterRun(t, ret)
    /\ files' = RemoveTemp(files, tempFile[t])
    /\ tempFile' = [tempFile EXCEPT ![t] = {}]
    /\ UNCHANGED <<api, runs, maxConcurrent, i, wg, semSize, semCur,
                   waiters, runCalls, retResults, retErr>>
    /\ UNCHANGED compVars

\* semaphore.Weighted.Release(1): give the permit back and wake the
\* waiters at the head of the queue that now fit.
\* Faulty variant: the woken waiters are not counted as permit holders.
NotifyWaitersUncounted(size, cur, ws, woken) ==
    [cur |-> cur, waiters |-> <<>>,
     woken |-> woken \cup {ws[k] : k \in 1 .. Len(ws)}]

\* Faulty variant: nobody is woken.
NotifyWaitersNobody(size, cur, ws, woken) ==
    [cur |-> cur, waiters |-> ws, woken |-> woken]

RECURSIVE NotifyWaiters(_, _, _, _)
NotifyWaiters(size, cur, ws, woken) ==
    IF ws = <<>> \/ size - cur < 1
    THEN [cur |-> cur, waiters |-> ws, woken |-> woken]
    ELSE NotifyWaiters(size, cur + 1, Tail(ws), woken \cup {Head(ws)})

\* Line 134: defer sem.Release(1).
Release(t) ==
    /\ t \in Tasks
    /\ pc[t] = "release"
    /\ LET n == NotifyWaiters(semSize, semCur - 1, waiters, {})
       IN  /\ semCur' = n.cur
           /\ waiters' = n.waiters
           /\ pc' = [u \in Callers |->
                        IF u = t THEN "wgdone"
                        ELSE IF u \in n.woken THEN "run"
                        ELSE pc[u]]
    /\ UNCHANGED <<api, runs, maxConcurrent, mainPc, i, wg, semSize, tempFile,
                   files, results, errors, runCalls, env, runReturn,
                   retResults, retErr>>
    /\ UNCHANGED compVars

\* Line 127: defer wg.Done().
Done(t) ==
    /\ t \in Tasks
    /\ pc[t] = "wgdone"
    /\ wg' = wg - 1
    /\ pc' = [pc EXCEPT ![t] = "done"]
    /\ UNCHANGED <<api, runs, maxConcurrent, mainPc, i, semSize, semCur,
                   waiters, tempFile, files, results, errors, runCalls, env,
                   runReturn, retResults, retErr>>
    /\ UNCHANGED compVars

\* Faulty variant: the wait ends at the first recorded failure.
WaitFirstError ==
    /\ mainPc = "launch"
    /\ i >= runs
    /\ wg = 0 \/ \E k \in 1 .. Len(errors) : ~errors[k].isNil
    /\ mainPc' = "collect"
    /\ UNCHANGED <<api, runs, maxConcurrent, i, wg, semSize, semCur, waiters,
                   pc, tempFile, files, results, errors, runCalls, env,
                   runReturn, retResults, retErr>>
    /\ UNCHANGED compVars

\* Line 146: wg.Wait() returns once the loop has ended and the counter is 0.
Wait ==
    /\ mainPc = "launch"
    /\ i >= runs
    /\ wg = 0
    /\ mainPc' = "collect"
    /\ UNCHANGED <<api, runs, maxConcurrent, i, wg, semSize, semCur, waiters,
                   pc, tempFile, files, results, errors, runCalls, env,
                   runReturn, retResults, retErr>>
    /\ UNCHANGED compVars

\* Faulty variant: the run named by its 0-based index.
RunMessageZeroBased(index, err) ==
    <<"run ">> \o Itoa(index) \o <<": ">> \o err.msg

\* Line 152: fmt.Sprintf("run %d: %v", i+1, err)
RunMessage(index, err) == <<"run ">> \o Itoa(index + 1) \o <<": ">> \o err.msg

\* Faulty variant: only the first failure reported.
RECURSIVE ErrorMessagesFirstOnly(_, _)
ErrorMessagesFirstOnly(errs, index) ==
    IF index >= Len(errs) THEN <<>>
    ELSE IF errs[index + 1].isNil THEN ErrorMessagesFirstOnly(errs, index + 1)
    ELSE <<RunMessage(index, errs[index + 1])>>

\* Lines 149-154: the messages of the failed runs, in index order.
RECURSIVE ErrorMessages(_, _)
ErrorMessages(errs, index) ==
    IF index >= Len(errs) THEN <<>>
    ELSE (IF errs[index + 1].isNil THEN <<>>
          ELSE <<RunMessage(index, errs[index + 1])>>)
         \o ErrorMessages(errs, index + 1)

\* Faulty variant: the outputs of the successful runs returned beside the error.
CollectReturnPartial(res, errs) ==
    LET errorMessages == ErrorMessages(errs, 0)
    IN  IF Len(errorMessages) > 0
        THEN [results |-> res,
              err |-> Errorf(<<"execution errors:\n">>
                             \o Join(errorMessages, <<"\n">>))]
        ELSE [results |-> res, err |-> NilErr]

\* Lines 148-159: the value ExecuteParallel returns after the wait.
CollectReturn(res, errs) ==
    LET errorMessages == ErrorMessages(errs, 0)
    IN  IF Len(errorMessages) > 0
        THEN [results |-> <<>>,
              err |-> Errorf(<<"execution errors:\n">>
                             \o Join(errorMessages, <<"\n">>))]
        ELSE [results |-> res, err |-> NilErr]

Collect ==
    /\ mainPc = "collect"
    /\ LET r == CollectReturn(results, errors)
       IN  /\ retResults' = r.results
           /\ retErr' = r.err
    /\ mainPc' = "returned"
    /\ UNCHANGED <<api, runs, maxConcurrent, i, wg, semSize, semCur, waiters,
                   pc, tempFile, files, results, errors, runCalls, env,
                   runReturn>>
    /\ UNCHANGED compVars

Next ==
    \/ CallRun
    \/ Enter
    \/ Launch
    \/ \E t \in Tasks : Acquire(t)
    \/ \E t \in Callers : CreateTemp(t)
    \/ \E t \in Callers : Execute(t)
    \/ \E t \in Tasks : Release(t)
    \/ \E t \in Tasks : Done(t)
    \/ Wait
    \/ Collect

Spec == Init /\ [][Next]_vars

\* ====================================================== properties checked
ParallelReturned == api = "ExecuteParallel" /\ mainPc = "returned"
RunIndices == 0 .. (runs - 1)
\* Tasks between acquiring and releasing the semaphore.
InProgress == {t \in Tasks : pc[t] \in {"run", "exec", "release"}}
\* Callers whose Run has returned.
RunReturned == {t \in Callers : pc[t] \in {"release", "wgdone", "done"}}
FailedRuns == {k \in RunIndices : ~runReturn[k].err.isNil}

\* C1: during ExecuteParallel with runs > 0 the number of runs in progress
\* is at most maxConcurrent when maxConcurrent >= 1 and at most 1 when
\* maxConcurrent <= 0, where the semaphore is the one maxConcurrent = 1 gets.
C1_BoundedConcurrency ==
    (api = "ExecuteParallel" /\ runs > 0) =>
        /\ maxConcurrent >= 1 => Cardinality(InProgress) <= maxConcurrent
        /\ maxConcurrent <= 0 => Cardinality(InProgress) <= 1
        /\ (maxConcurrent <= 0 /\ mainPc # "call") => semSize = 1

C1_Witness ==
    /\ api = "ExecuteParallel"
    /\ maxConcurrent = 2
    /\ Cardinality(InProgress) = 2
    /\ \A t \in InProgress : pc[t] = "exec"
    /\ waiters # <<>>

\* C2: when ExecuteParallel succeeds, the returned slice has one entry per
\* run and entry k is the output that the Run call of task k returned.
C2_ResultsByIndex ==
    (ParallelReturned /\ runs > 0 /\ retErr.isNil) =>
        /\ Len(retResults) = runs
        /\ \A k \in RunIndices : retResults[k + 1] = runReturn[k].output

C2_Witness ==
    /\ ParallelReturned
    /\ runs = 3
    /\ retErr.isNil
    /\ retResults[1] # retResults[2]
    /\ retResults[2] = retResults[3]

\* C3: no task invokes Run more than once, and when ExecuteParallel returns
\* (runs > 0) every one of the tasks 0..runs-1 has invoked Run exactly once
\* and has finished, whether or not other runs failed.
C3_EveryRunOnce ==
    /\ \A t \in Tasks : runCalls[t] <= 1
    /\ (ParallelReturned /\ runs > 0) =>
           \A k \in RunIndices : runCalls[k] = 1 /\ pc[k] = "done"

C3_Witness ==
    /\ ParallelReturned
    /\ runs = 3
    /\ FailedRuns = {0}
    /\ \A k \in RunIndices : runCalls[k] = 1

\* C4: ExecuteParallel with runs > 0 returns either runs outputs and a nil
\* error, when every run succeeded, or a nil slice and a non-nil error, when
\* some run failed; the slots of the successful runs hold their outputs.
C4_AllOrNothing ==
    (ParallelReturned /\ runs > 0) =>
        /\ \/ retErr.isNil /\ Len(retResults) = runs /\ FailedRuns = {}
           \/ ~retErr.isNil /\ retResults = <<>> /\ FailedRuns # {}
        /\ \A k \in RunIndices \ FailedRuns :
               results[k + 1] = runReturn[k].output

C4_Witness ==
    /\ ParallelReturned
    /\ runs = 3
    /\ FailedRuns = {1}
    /\ retResults = <<>>
    /\ results[1] # <<>>
    /\ results[3] # <<>>

\* Positions (0-based) at which sub occurs in text.
Occurrences(text, sub) ==
    {p \in 0 .. (Len(text) - Len(sub)) :
        \A j \in 1 .. Len(sub) : text[p + j] = sub[j]}
StartsWith(text, prefix) ==
    Len(text) >= Len(prefix) /\ SubSeq(text, 1, Len(prefix)) = prefix
\* "run <n>: " for the 1-based number n of the run with 0-based index k.
RunLabel(k) == <<"run ", Digit[k + 2], ": ">>
RunEntry(k) == RunLabel(k) \o runReturn[k].err.msg

\* C5: when some run fails, the aggregate error starts with "execution
\* errors", holds exactly one entry "run <k+1>: <error of run k>" for each
\* failing index k and none for a succeeding one, in ascending index order.
C5_AggregateError ==
    (ParallelReturned /\ runs > 0 /\ FailedRuns # {}) =>
        /\ ~retErr.isNil
        /\ StartsWith(retErr.msg, <<"execution errors:\n">>)
        /\ \A k \in RunIndices :
               Cardinality(Occurrences(retErr.msg, RunLabel(k))) =
                   (IF k \in FailedRuns THEN 1 ELSE 0)
        /\ \A k \in FailedRuns : Occurrences(retErr.msg, RunEntry(k)) # {}
        /\ \A k, l \in FailedRuns :
               k < l => \A p \in Occurrences(retErr.msg, RunEntry(k)) :
                        \A q \in Occurrences(retErr.msg, RunEntry(l)) : p < q

C5_Witness ==
    /\ ParallelReturned
    /\ runs = 3
    /\ FailedRuns = {0, 2}
    /\ runReturn[0].err # runReturn[2].err

\* Three runs of which the one with 0-based index 2 is the one that fails.
OnlyRunIndexTwoFails == ParallelReturned /\ runs = 3 /\ FailedRuns = {2}

\* C6 as claimed: with 3 runs of which 0-based index 2 fails, the aggregate
\* error names "run 2".
C6_NamesRunTwo ==
    OnlyRunIndexTwoFails => Occurrences(retErr.msg, <<"run ", "2">>) # {}

\* C6 amended: with 3 runs of which 0-based index 2 fails, the aggregate
\* error names the run by its 1-based number, "run 3", followed by that
\* run's underlying message.
C6_NamesRunThree ==
    OnlyRunIndexTwoFails =>
        Occurrences(retErr.msg, <<"run ", "3", ": ">> \o runReturn[2].err.msg)
            # {}

C6_Witness == OnlyRunIndexTwoFails /\ ~retErr.isNil

\* C7: ExecuteParallel with runs <= 0 returns in one step a nil slice and an
\* error, whatever maxConcurrent is; no task is launched, Run is never
\* invoked, the subprocess never runs and no temp file is created.
C7_InvalidRunsFailFast ==
    (api = "ExecuteParallel" /\ runs <= 0) =>
        /\ mainPc \in {"call", "returned"}
        /\ mainPc = "returned" => ~retErr.isNil /\ retResults = <<>>
        /\ \A t \in Callers :
               pc[t] = "idle" /\ runCalls[t] = 0 /\ env[t] = NoEnv
        /\ wg = 0 /\ i = 0 /\ semCur = 0
        /\ files = {}

C7_Witness ==
    /\ ParallelReturned
    /\ runs = 0
    /\ maxConcurrent = 2
    /\ ~retErr.isNil

\* C8: the temp files that exist are exactly those of the Run calls that
\* have not returned yet, so once a Run has returned (on any path) its file
\* is gone, and none is left when Run or ExecuteParallel has returned.
C8_TempFileRemoved ==
    /\ files = UNION {tempFile[t] : t \in Callers \ RunReturned}
    /\ mainPc = "returned" => files = {}

C8_Witness ==
    /\ ParallelReturned
    /\ runs = 3
    /\ \A k \in RunIndices : env[k].temp = "ok"
    /\ FailedRuns = {0, 1}
    /\ files = {}

\* What each output of the runner is, read off its text.
NotJSONOutputs == {OutNotJSON}
SuccessOutputs == {OutSuccessA, OutSuccessB, OutSuccessNotCompiled}
CompileFailOutputs == {OutCompileFail, OutEmptyObject}
ExecFailOutputs == {OutExecFail}

\* C9: Run classifies with this precedence: temp-file failure; subprocess
\* failure ("sf apex run failed", with the output); output that is not
\* JSON (parse error, with the output); success = false and compiled =
\* false ("Apex compilation failed"); success = false and compiled = true
\* ("Apex execution failed"); and it succeeds exactly when none holds.
C9_FailurePrecedence ==
    \A t \in RunReturned :
        LET e == env[t]
            err == runReturn[t].err
            out == e.proc.output
        IN  /\ e.temp \in {"createFail", "writeFail"} =>
                  /\ StartsWith(err.msg, <<"failed to create temp file: ">>)
                  /\ e.proc = NoEnv.proc
            /\ (e.temp = "ok" /\ ~e.proc.err.isNil) =>
                  /\ StartsWith(err.msg, <<"sf apex run failed: ">>)
                  /\ out # <<>> => Occurrences(err.msg, out) # {}
            /\ (e.temp = "ok" /\ e.proc.err.isNil /\ out \in NotJSONOutputs) =>
                  /\ StartsWith(err.msg,
                                <<"failed to parse sf apex run JSON output: ">>)
                  /\ Occurrences(err.msg, out) # {}
            /\ (e.temp = "ok" /\ e.proc.err.isNil
                  /\ out \in CompileFailOutputs) =>
                  /\ StartsWith(err.msg, <<"Apex compilation failed: ">>)
                  /\ out = OutCompileFail =>
                         err.msg[Len(err.msg)] = "Unexpected token"
            /\ (e.temp = "ok" /\ e.proc.err.isNil /\ out \in ExecFailOutputs) =>
                  err.msg = <<"Apex execution failed: ",
                              "System.NullPointerException">>
            /\ err.isNil <=>
                  (e.temp = "ok" /\ e.proc.err.isNil /\ out \in SuccessOutputs)

C9_Witness ==
    /\ api = "Run"
    /\ mainPc = "returned"
    /\ env[DirectCall].proc = [err |-> NilErr, output |-> OutSuccessNotCompiled]
    /\ runReturn[DirectCall].err.isNil

\* C10 as claimed: on success Run returns the whole text the subprocess
\* wrote.
C10_ReturnsCombinedOutput ==
    \A t \in RunReturned :
        runReturn[t].err.isNil => runReturn[t].output = env[t].proc.output

\* The logs field inside each successful output.
LogsOf(out) ==
    IF out = OutSuccessA THEN <<"USER_DEBUG|BENCH_RESULT:a">>
    ELSE IF out = OutSuccessB THEN <<"USER_DEBUG|BENCH_RESULT:b">>
    ELSE IF out = OutSuccessNotCompiled THEN <<"USER_DEBUG|BENCH_RESULT:c">>
    ELSE <<>>

\* C10 amended: on success Run returns the value of the logs field of the
\* JSON object the subprocess wrote, not the whole output.
C10_ReturnsLogs ==
    \A t \in RunReturned :
        runReturn[t].err.isNil =>
            /\ runReturn[t].output = LogsOf(env[t].proc.output)
            /\ runReturn[t].output # env[t].proc.output

C10_Witness ==
    /\ api = "Run"
    /\ mainPc = "returned"
    /\ runReturn[DirectCall].err.isNil
    /\ env[DirectCall].proc.output = OutSuccessB
    /\ runReturn[DirectCall].output = <<"USER_DEBUG|BENCH_RESULT:b">>

\* =====================================================================
\* CheckOrgAuth (pkg/executor): is the target org authenticated?
\* =====================================================================
OrgNames == {<<>>, <<"my-org">>}

\* A JSON string member of the runner's answer: <<>> when the key is
\* absent, <<v>> when it is present with the string v ("" included).
UsernameMembers == {<<>>, <<"">>, <<"user@example.com">>}
ConnectedStatusMembers ==
    {<<>>, <<"">>, <<"Connected">>, <<"Expired">>, <<"connected">>}

\* What `sf org display --json` can write: not JSON at all, or an object
\* whose "result" is absent, null, a string, or an object.
OrgDisplayShapes ==
    [kind : {"notJSON", "empty"}, status : {"0"},
     username : {<<>>}, connectedStatus : {<<>>}]
    \cup [kind : {"absent", "null", "string"}, status : {"0", "1"},
          username : {<<>>}, connectedStatus : {<<>>}]
    \cup [kind : {"object"}, status : {"0", "1"},
          username : UsernameMembers,
          connectedStatus : ConnectedStatusMembers]

Member(key, member) ==
    IF member = <<>> THEN <<>> ELSE <<key, member[1]>>

\* The text of the answer, flattened to tokens as the runner's other
\* answers are, the nested object kept between its own braces.
OrgDisplayOutput(shape) ==
    IF shape.kind = "empty" THEN <<>>
    ELSE IF shape.kind = "notJSON"
    THEN <<"Warning: update available", "{", "status", "0", "}">>
    ELSE <<"{", "status", shape.status>>
         \o (IF shape.kind = "absent" THEN <<>>
             ELSE IF shape.kind = "null" THEN <<"result", "null">>
             ELSE IF shape.kind = "string" THEN <<"result", "none">>
             ELSE <<"result", "{", "id", "00D">>
                  \o Member("username", shape.username)
                  \o Member("connectedStatus", shape.connectedStatus)
                  \o <<"}">>)
         \o <<"}">>

\* cmd.CombinedOutput() of `sf org display`.
OrgDisplayOutcomes ==
    [err : {NilErr}, shape : OrgDisplayShapes]
    \cup [err : {Errorf(<<"exit status 1">>)},
          shape : {s \in OrgDisplayShapes :
                      /\ s.status = "1"
                      /\ s.kind \in {"null", "object"}
                      /\ s.username # <<"">>
                      /\ s.connectedStatus \in {<<>>, <<"Connected">>}}]

\* A JSON string value as a Go string.
GoString(token) == IF token = "" THEN <<>> ELSE <<token>>

ZeroOrgResult == [username |-> <<>>, connectedStatus |-> <<>>]
\* Result is a pointer: <<>> is nil, <<r>> points to r.
ZeroOrgDisplayResponse == [status |-> "0", result |-> <<>>]

RECURSIVE DecodeOrgResult(_, _)
DecodeOrgResult(pairs, res) ==
    IF pairs = <<>> THEN [ok |-> TRUE, result |-> res]
    ELSE IF Len(pairs) < 2 THEN [ok |-> FALSE, result |-> res]
    ELSE LET k == pairs[1]
             v == pairs[2]
             rest == SubSeq(pairs, 3, Len(pairs))
         IN  IF k = "username"
             THEN DecodeOrgResult(rest, [res EXCEPT !.username = GoString(v)])
             ELSE IF k = "connectedStatus"
             THEN DecodeOrgResult(
                      rest, [res EXCEPT !.connectedStatus = GoString(v)])
             ELSE DecodeOrgResult(rest, res)

\* Position of the first token tok at or after position from, 0 if none.
IndexFrom(text, tok, from) ==
    LET found == {p \in from .. Len(text) : text[p] = tok}
    IN  IF found = {} THEN 0
        ELSE CHOOSE p \in found : \A q \in found : p <= q

RECURSIVE DecodeOrgDisplay(_, _)
DecodeOrgDisplay(body, resp) ==
    IF body = <<>> THEN [ok |-> TRUE, response |-> resp]
    ELSE IF Len(body) < 2 THEN [ok |-> FALSE, response |-> resp]
    ELSE LET k == body[1]
             v == body[2]
             rest == SubSeq(body, 3, Len(body))
         IN  IF k = "status"
             THEN IF v \in {"0", "1"}
                  THEN DecodeOrgDisplay(rest, [resp EXCEPT !.status = v])
                  ELSE [ok |-> FALSE, response |-> resp]
             ELSE IF k = "result"
             THEN IF v = "null"
                  THEN DecodeOrgDisplay(rest, [resp EXCEPT !.result = <<>>])
                  ELSE IF v = "{"
                  THEN LET close == IndexFrom(body, "}", 3)
                           inner == DecodeOrgResult(
                                        SubSeq(body, 3, close - 1),
                                        ZeroOrgResult)
                       IN  IF close = 0 \/ ~inner.ok
                           THEN [ok |-> FALSE, response |-> resp]
                           ELSE DecodeOrgDisplay(
                                    SubSeq(body, close + 1, Len(body)),
                                    [resp EXCEPT !.result = <<inner.result>>])
                  ELSE [ok |-> FALSE, response |-> resp]
             ELSE DecodeOrgDisplay(rest, resp)

\* json.Unmarshal(output, &response) for an OrgDisplayResponse
UnmarshalOrgDisplay(text) ==
    IF \/ Len(text) < 2
       \/ text[1] # "{"
       \/ text[Len(text)] # "}"
    THEN [ok |-> FALSE, response |-> ZeroOrgDisplayResponse]
    ELSE DecodeOrgDisplay(SubSeq(text, 2, Len(text) - 1),
                          ZeroOrgDisplayResponse)

\* fmt's %q of a text
Quote(text) == <<"\"">> \o text \o <<"\"">>

\* Faulty variant: an unreported connection status is refused.
CheckOrgAuthStatusRequired(org, err, output) ==
    IF ~err.isNil
    THEN Errorf(<<"org ">> \o Quote(org) \o <<" is not authenticated: ">>
                \o err.msg)
    ELSE LET parsed == UnmarshalOrgDisplay(output)
             response == parsed.response
         IN  IF ~parsed.ok
             THEN Errorf(<<"failed to parse org display output: ",
                           "invalid character", "\nOutput: ">> \o output)
             ELSE IF response.result = <<>>
                     \/ response.result[1].username = <<>>
             THEN Errorf(<<"org ">> \o Quote(org)
                         \o <<" is not authenticated or not found">>)
             ELSE IF response.result[1].connectedStatus # <<"Connected">>
             THEN Errorf(<<"org ">> \o Quote(org) \o <<" status is ">>
                         \o Quote(response.result[1].connectedStatus)
                         \o <<", expected Connected">>)
             ELSE NilErr

\* CheckOrgAuth(org), given what `sf org display` answered
CheckOrgAuth(org, err, output) ==
    IF ~err.isNil
    THEN Errorf(<<"org ">> \o Quote(org) \o <<" is not authenticated: ">>
                \o err.msg)
    ELSE LET parsed == UnmarshalOrgDisplay(output)
             response == parsed.response
         IN  IF ~parsed.ok
             THEN Errorf(<<"failed to parse org display output: ",
                           "invalid character", "\nOutput: ">> \o output)
             ELSE IF response.result = <<>>
                     \/ response.result[1].username = <<>>
             THEN Errorf(<<"org ">> \o Quote(org)
                         \o <<" is not authenticated or not found">>)
             ELSE IF /\ response.result[1].connectedStatus # <<>>
                     /\ response.result[1].connectedStatus # <<"Connected">>
             THEN Errorf(<<"org ">> \o Quote(org) \o <<" status is ">>
                         \o Quote(response.result[1].connectedStatus)
                         \o <<", expected Connected">>)
             ELSE NilErr

\* The executor is not running while a component is called.
ExecIdle ==
    /\ api = ""
    /\ runs = 0
    /\ maxConcurrent = 0
    /\ mainPc = "idle"
    /\ i = 0
    /\ wg = 0
    /\ semSize = 0
    /\ semCur = 0
    /\ waiters = <<>>
    /\ pc = [t \in Tasks |-> "idle"]
    /\ tempFile = [t \in Callers |-> {}]
    /\ files = {}
    /\ results = <<>>
    /\ errors = <<>>
    /\ runCalls = [t \in Tasks |-> 0]
    /\ env = [t \in Callers |-> NoEnv]
    /\ runReturn = [t \in Callers |-> NoReturn]
    /\ retResults = <<>>
    /\ retErr = NilErr

AuthInit ==
    /\ ExecIdle
    /\ fn = "CheckOrgAuth"
    /\ fnArg \in [org : OrgNames, sf : OrgDisplayOutcomes]
    /\ fnDone = FALSE
    /\ fnRet = <<>>
    /\ cmdPc = ""
    /\ cmdLocal = <<>>
    /\ sfCalls = <<>>

CallCheckOrgAuth ==
    /\ fn = "CheckOrgAuth"
    /\ ~fnDone
    /\ fnRet' = CheckOrgAuth(fnArg.org, fnArg.sf.err,
                             OrgDisplayOutput(fnArg.sf.shape))
    /\ fnDone' = TRUE
    /\ UNCHANGED <<fn, fnArg, cmdPc, cmdLocal, sfCalls>>
    /\ UNCHANGED execVars

AuthSpec == AuthInit /\ [][CallCheckOrgAuth]_vars

CheckOrgAuthReturned == fn = "CheckOrgAuth" /\ fnDone

\* C11 (as stated): CheckOrgAuth accepts a target only when the runner
\* reports the connection status "Connected"; every other outcome, an
\* empty or absent status included, is a failure.
C11_OnlyConnectedAccepted ==
    (CheckOrgAuthReturned /\ fnRet.isNil) =>
        /\ fnArg.sf.err.isNil
        /\ fnArg.sf.shape.kind = "object"
        /\ fnArg.sf.shape.connectedStatus = <<"Connected">>

\* C11 (amended): CheckOrgAuth accepts a target exactly when the command
\* succeeded, its output is a JSON object whose result is an object with
\* a non-empty username, and the connection status is "Connected" or is
\* empty or absent; every other outcome is a failure.
C11_ConnectedOrUnreported ==
    CheckOrgAuthReturned =>
        (fnRet.isNil <=>
            /\ fnArg.sf.err.isNil
            /\ fnArg.sf.shape.kind = "object"
            /\ fnArg.sf.shape.username \notin {<<>>, <<"">>}
            /\ fnArg.sf.shape.connectedStatus
                   \in {<<>>, <<"">>, <<"Connected">>})

\* An answer without any connection status has been accepted.
C11_Witness ==
    /\ CheckOrgAuthReturned
    /\ fnArg.sf.err.isNil
    /\ fnArg.sf.shape.kind = "object"
    /\ fnArg.sf.shape.connectedStatus = <<>>
    /\ fnRet.isNil

\* =====================================================================
\* pkg/parser: the benchmark result found in a run's debug log
\* =====================================================================
\* A text is a sequence of lexemes: the marker, a brace, a quote, a
\* comma, a digit, an object key with its colon, or a run of other
\* characters.
Marker == "BENCH_RESULT:"
EscapedQuote == "\\\""

\* ------------------------------------------------------- types.Result
StringFields == {"name"}
IntFields == {"iterations"}
FloatFields ==
    {"avgWallMs", "avgCpuMs", "minWallMs", "maxWallMs", "minCpuMs",
     "maxCpuMs"}
\* Pointer fields (omitempty): <<>> is nil, <<v>> points to v.
PointerFields ==
    {"avgHeapKb", "minHeapKb", "maxHeapKb", "dmlStatements", "soqlQueries"}
\* The key of each field, as it stands in a JSON object.
KeyLexeme ==
    [name |-> "\"name\":", iterations |-> "\"iterations\":",
     avgWallMs |-> "\"avgWallMs\":", avgCpuMs |-> "\"avgCpuMs\":",
     minWallMs |-> "\"minWallMs\":", maxWallMs |-> "\"maxWallMs\":",
     minCpuMs |-> "\"minCpuMs\":", maxCpuMs |-> "\"maxCpuMs\":",
     avgHeapKb |-> "\"avgHeapKb\":", minHeapKb |-> "\"minHeapKb\":",
     maxHeapKb |-> "\"maxHeapKb\":",
     dmlStatements |-> "\"dmlStatements\":",
     soqlQueries |-> "\"soqlQueries\":"]
\* Keys that name no field of a Result.
OtherKeyLexemes == {"\"raw\":"}

ZeroResult ==
    [name |-> <<>>, iterations |-> 0, avgWallMs |-> 0, avgCpuMs |-> 0,
     minWallMs |-> 0, maxWallMs |-> 0, minCpuMs |-> 0, maxCpuMs |-> 0,
     avgHeapKb |-> <<>>, minHeapKb |-> <<>>, maxHeapKb |-> <<>>,
     dmlStatements |-> <<>>, soqlQueries |-> <<>>]

\* --------------------------------------------- encoding/json, encoding
\* Faulty variant: a quote inside a string is written as it is.
EscapeNothing(chars) == chars

Escape(chars) ==
    [k \in 1 .. Len(chars) |->
        IF chars[k] = "\"" THEN EscapedQuote ELSE chars[k]]

JSONString(chars) == <<"\"">> \o Escape(chars) \o <<"\"">>

NumberMember(r, field) == <<",", KeyLexeme[field]>> \o Itoa(r[field])

\* A nil pointer is left out (omitempty).
PointerMember(r, field) ==
    IF r[field] = <<>> THEN <<>>
    ELSE <<",", KeyLexeme[field]>> \o Itoa(r[field][1])

\* The JSON object of a types.Result, its members in declaration order.
Marshal(r) ==
    <<"{", KeyLexeme.name>> \o JSONString(r.name)
    \o NumberMember(r, "iterations")
    \o NumberMember(r, "avgWallMs") \o NumberMember(r, "avgCpuMs")
    \o NumberMember(r, "minWallMs") \o NumberMember(r, "maxWallMs")
    \o NumberMember(r, "minCpuMs") \o NumberMember(r, "maxCpuMs")
    \o PointerMember(r, "avgHeapKb") \o PointerMember(r, "minHeapKb")
    \o PointerMember(r, "maxHeapKb")
    \o PointerMember(r, "dmlStatements") \o PointerMember(r, "soqlQueries")
    \o <<"}">>

\* --------------------------------------------- encoding/json, decoding
Bad == [ok |-> FALSE]

IsDigit(tok) == \E d \in 1 .. 10 : Digit[d] = tok
DigitValue(tok) == (CHOOSE d \in 1 .. 10 : Digit[d] = tok) - 1

\* The value of a run of digits.
RECURSIVE DigitsValue(_)
DigitsValue(digits) ==
    IF digits = <<>> THEN 0
    ELSE (10 * DigitsValue(SubSeq(digits, 1, Len(digits) - 1)))
         + DigitValue(digits[Len(digits)])

\* A JSON number: digits without a superfluous leading zero.
IsDigits(text) ==
    /\ Len(text) >= 1
    /\ \A k \in 1 .. Len(text) : IsDigit(text[k])
    /\ Len(text) > 1 => text[1] # "0"

Unescape(chars) ==
    [k \in 1 .. Len(chars) |->
        IF chars[k] = EscapedQuote THEN "\"" ELSE chars[k]]

IsKey(tok) ==
    tok \in OtherKeyLexemes \/ \E f \in DOMAIN KeyLexeme : KeyLexeme[f] = tok

\* The members of the JSON object that a text is: for each, its key and
\* the kind and Go value of its value, in the order of the text.
RECURSIVE ScanObject(_)
ScanObject(text) ==
    LET n == Len(text)
        \* whether lexeme p stands outside the quoted strings
        outside == [p \in 1 .. n |->
                       Cardinality({j \in 1 .. (p - 1) : text[j] = "\""}) % 2
                           = 0]
        \* how many objects are open after lexeme p
        depth == [p \in 1 .. n |->
                     Cardinality({j \in 1 .. p : outside[j] /\ text[j] = "{"})
                     - Cardinality({j \in 1 .. p :
                                       outside[j] /\ text[j] = "}"})]
        commas == {p \in 1 .. n :
                      text[p] = "," /\ outside[p] /\ depth[p] = 1}
        starts == IF n = 2 THEN {} ELSE {2} \cup {c + 1 : c \in commas}
        EndOf(s) ==
            (CHOOSE c \in commas \cup {n} :
                /\ c >= s
                /\ \A d \in commas \cup {n} : d >= s => c <= d) - 1
        ScanValue(lo, hi) ==
            IF lo > hi THEN Bad
            ELSE IF text[lo] = "\""
            THEN IF /\ hi > lo
                    /\ text[hi] = "\""
                    /\ \A j \in (lo + 1) .. (hi - 1) : text[j] # "\""
                 THEN [ok |-> TRUE, kind |-> "string",
                       val |-> Unescape(SubSeq(text, lo + 1, hi - 1))]
                 ELSE Bad
            ELSE IF text[lo] = "null"
            THEN IF lo = hi
                 THEN [ok |-> TRUE, kind |-> "null", val |-> <<>>]
                 ELSE Bad
            ELSE IF text[lo] = "{"
            THEN IF ScanObject(SubSeq(text, lo, hi)).ok
                 THEN [ok |-> TRUE, kind |-> "object", val |-> <<>>]
                 ELSE Bad
            ELSE IF text[lo] = "-"
            THEN IF IsDigits(SubSeq(text, lo + 1, hi))
                 THEN [ok |-> TRUE, kind |-> "number",
                       val |-> 0 - DigitsValue(SubSeq(text, lo + 1, hi))]
                 ELSE Bad
            ELSE IF IsDigits(SubSeq(text, lo, hi))
            THEN [ok |-> TRUE, kind |-> "number",
                  val |-> DigitsValue(SubSeq(text, lo, hi))]
            ELSE Bad
        MemberAt(s) ==
            IF IsKey(text[s])
            THEN ScanValue(s + 1, EndOf(s)) @@ [key |-> text[s]]
            ELSE Bad
        Nth(k) ==
            CHOOSE s \in starts : Cardinality({t \in starts : t <= s}) = k
    IN  IF /\ n >= 2
           /\ text[1] = "{"
           /\ text[n] = "}"
           /\ outside[n]
           /\ depth[n] = 0
           /\ \A p \in 1 .. (n - 1) : depth[p] >= 1
           /\ \A s \in starts : MemberAt(s).ok
        THEN [ok |-> TRUE,
              members |-> [k \in 1 .. Cardinality(starts) |-> MemberAt(Nth(k))]]
        ELSE Bad

\* Whether a member's value can be stored into the field its key names.
Assignable(m) ==
    \A f \in DOMAIN KeyLexeme :
        m.key = KeyLexeme[f] =>
            \/ m.kind = "null"
            \/ f \in StringFields /\ m.kind = "string"
            \/ f \notin StringFields /\ m.kind = "number"

\* The field's value once the members have been stored in their order:
\* the last member of that key decides, null leaving a plain field as it
\* is and making a pointer nil.
FieldValue(members, f) ==
    LET mine == {k \in 1 .. Len(members) :
                    /\ members[k].key = KeyLexeme[f]
                    /\ f \in PointerFields \/ members[k].kind # "null"}
        last == CHOOSE k \in mine : \A j \in mine : j <= k
    IN  IF mine = {} THEN ZeroResult[f]
        ELSE IF f \notin PointerFields THEN members[last].val
        ELSE IF members[last].kind = "null" THEN <<>>
        ELSE <<members[last].val>>

\* json.Unmarshal([]byte(jsonStr), &result) for a types.Result
UnmarshalResult(text) ==
    LET obj == ScanObject(text)
    IN  IF obj.ok /\ \A k \in 1 .. Len(obj.members) : Assignable(obj.members[k])
        THEN [ok |-> TRUE,
              result |-> [f \in DOMAIN KeyLexeme |->
                             FieldValue(obj.members, f)]]
        ELSE [ok |-> FALSE, result |-> ZeroResult]

\* -------------------------------------------------------- ParseResult
\* Go's s[n:] and s[:n]; offsets count from 0.
From(text, n) == SubSeq(text, n + 1, Len(text))
Upto(text, n) == SubSeq(text, 1, n)
\* strings.Index for a one-lexeme needle: its offset, or -1.
Index(text, tok) == IndexFrom(text, tok, 1) - 1

MarkerText == <<Marker>>

\* The brace counter's loop: braceCount[k] is the counter after the first
\* k lexemes; the loop stops at the first "}" that brings it to 0 and
\* gives the offset just after it, or -1 when there is none.
BraceScan(remaining) ==
    LET braceCount ==
            [k \in 0 .. Len(remaining) |->
                Cardinality({j \in 1 .. k : remaining[j] = "{"})
                - Cardinality({j \in 1 .. k : remaining[j] = "}"})]
        stops == {k \in 1 .. Len(remaining) :
                    remaining[k] = "}" /\ braceCount[k] = 0}
    IN  IF stops = {} THEN 0 - 1
        ELSE CHOOSE k \in stops : \A j \in stops : k <= j

NoValidResult(debugOutput) ==
    [result |-> ZeroResult,
     err |-> Errorf(<<"could not find valid BENCH_RESULT JSON in output.",
                      "\n\nOutput:\n">> \o debugOutput)]

\* Faulty variant: the search gives up at the first malformed occurrence.
ParseLoopStopAtMalformed(debugOutput, searchPos) ==
    LET found == Index(From(debugOutput, searchPos), Marker)
        markerIdx == found + searchPos
        jsonStart == markerIdx + Len(MarkerText)
        remaining == From(debugOutput, jsonStart)
        jsonEnd == BraceScan(remaining)
        parsed == UnmarshalResult(Upto(remaining, jsonEnd))
    IN  IF found = 0 - 1 THEN NoValidResult(debugOutput)
        ELSE IF jsonEnd # 0 - 1 /\ parsed.ok
        THEN [result |-> parsed.result, err |-> NilErr]
        ELSE NoValidResult(debugOutput)

\* The loop of ParseResult, entered with the given searchPos.
RECURSIVE ParseLoop(_, _)
ParseLoop(debugOutput, searchPos) ==
    LET found == Index(From(debugOutput, searchPos), Marker)
        markerIdx == found + searchPos
        jsonStart == markerIdx + Len(MarkerText)
        remaining == From(debugOutput, jsonStart)
        jsonEnd == BraceScan(remaining)
        parsed == UnmarshalResult(Upto(remaining, jsonEnd))
    IN  IF found = 0 - 1 THEN NoValidResult(debugOutput)
        ELSE IF jsonEnd # 0 - 1 /\ parsed.ok
        THEN [result |-> parsed.result, err |-> NilErr]
        ELSE ParseLoop(debugOutput, markerIdx + Len(MarkerText))

ParseResult(debugOutput) == ParseLoop(debugOutput, 0)

\* ----------------------------------------------- ParseMultipleResults
OutputMessage(index, err) ==
    <<"output ">> \o Itoa(index + 1) \o <<": ">> \o err.msg

\* Faulty variant: the batch stops at its first failing output.
RECURSIVE ParseEachStopAtFailure(_, _, _, _)
ParseEachStopAtFailure(outputs, index, res, errs) ==
    IF index >= Len(outputs) THEN [results |-> res, errors |-> errs]
    ELSE LET one == ParseResult(outputs[index + 1])
         IN  IF ~one.err.isNil
             THEN [results |-> res,
                   errors |-> Append(errs, OutputMessage(index, one.err))]
             ELSE ParseEachStopAtFailure(
                      outputs, index + 1,
                      [res EXCEPT ![index + 1] = one.result], errs)

\* The loop of ParseMultipleResults from slice index `index` on.
RECURSIVE ParseEach(_, _, _, _)
ParseEach(outputs, index, res, errs) ==
    IF index >= Len(outputs) THEN [results |-> res, errors |-> errs]
    ELSE LET one == ParseResult(outputs[index + 1])
         IN  IF ~one.err.isNil
             THEN ParseEach(outputs, index + 1, res,
                            Append(errs, OutputMessage(index, one.err)))
             ELSE ParseEach(outputs, index + 1,
                            [res EXCEPT ![index + 1] = one.result], errs)

ParseMultipleResults(outputs) ==
    LET loop == ParseEach(outputs, 0,
                          [k \in 1 .. Len(outputs) |-> ZeroResult], <<>>)
    IN  IF Len(loop.errors) > 0
        THEN [results |-> <<>>,
              err |-> Errorf(<<"failed to parse some results:\n">>
                             \o Join(loop.errors, <<"\n">>))]
        ELSE [results |-> loop.results, err |-> NilErr]

\* ------------------------------------------------------ parser inputs
MaxNameLen == 2
MaxSegments == 3
MaxOutputs == 3

NameChars == {"a", "{", "}", "\""}
Names == UNION {[1 .. n -> NameChars] : n \in 0 .. MaxNameLen}

\* Results of every name and every combination of optional fields.
ResultValues ==
    [name : Names, iterations : {0, 100},
     avgWallMs : {2}, avgCpuMs : {1}, minWallMs : {1}, maxWallMs : {3},
     minCpuMs : {0 - 1}, maxCpuMs : {2},
     avgHeapKb : {<<>>, <<7>>}, minHeapKb : {<<>>, <<6>>},
     maxHeapKb : {<<>>, <<8>>}, dmlStatements : {<<>>, <<0>>},
     soqlQueries : {<<>>, <<5>>}]

\* The Results of two objects that give some of the fields only.
ResultA == [ZeroResult EXCEPT !.name = <<"TestBench">>, !.iterations = 100]
ResultB == [ZeroResult EXCEPT !.name = <<"HeapTest">>, !.avgHeapKb = <<7>>]
PayloadA ==
    <<"{", KeyLexeme.name, "\"", "TestBench", "\"", ",",
      KeyLexeme.iterations, "1", "0", "0", "}">>
PayloadB ==
    <<"{", KeyLexeme.name, "\"", "HeapTest", "\"", ",",
      KeyLexeme.avgHeapKb, "7", "}">>

\* The pieces a debug log is made of.
Segments ==
    {<<"USER_DEBUG|">>,
     <<"}">>,
     <<Marker, "' + resultJson);">>,
     MarkerText \o PayloadA,
     MarkerText \o PayloadB,
     <<Marker, "{", "}">>,
     <<Marker, "{", KeyLexeme.name>>,
     <<Marker, "{", KeyLexeme.name, "\"", "Bad", "\"", ",", "invalid:", ",",
       "}">>,
     <<Marker, "{", KeyLexeme.name, "1", "}">>,
     <<Marker, "{", "\"raw\":", "{", "}", ",", KeyLexeme.iterations, "null",
       "}">>}

RECURSIVE Flatten(_)
Flatten(texts) ==
    IF texts = <<>> THEN <<>> ELSE texts[1] \o Flatten(Tail(texts))

DebugOutputs ==
    {Flatten(segs) :
        segs \in UNION {[1 .. n -> Segments] : n \in 0 .. MaxSegments}}

\* A ParseResult argument: the text, and the Result it was serialized
\* from when there is one (<<>> otherwise).
ParseResultArgs ==
    [text : DebugOutputs, source : {<<>>}]
    \cup {[text |-> MarkerText \o Marshal(r), source |-> <<r>>] :
            r \in ResultValues}

BatchOutputs ==
    {<<"USER_DEBUG|">> \o MarkerText \o PayloadA,
     <<"USER_DEBUG|">> \o MarkerText \o PayloadB,
     <<"USER_DEBUG|", "Something else">>,
     <<"USER_DEBUG|", Marker, "{", KeyLexeme.name, "\"", "Bad", "\"", ",",
       "invalid:", ",", "}">>}

ParseMultipleResultsArgs ==
    UNION {[1 .. n -> BatchOutputs] : n \in 0 .. MaxOutputs}

ParserInit ==
    /\ ExecIdle
    /\ \/ fn = "ParseResult" /\ fnArg \in ParseResultArgs
       \/ fn = "ParseMultipleResults" /\ fnArg \in ParseMultipleResultsArgs
    /\ fnDone = FALSE
    /\ fnRet = <<>>
    /\ cmdPc = ""
    /\ cmdLocal = <<>>
    /\ sfCalls = <<>>

CallParseResult ==
    /\ fn = "ParseResult"
    /\ ~fnDone
    /\ fnRet' = ParseResult(fnArg.text)
    /\ fnDone' = TRUE
    /\ UNCHANGED <<fn, fnArg, cmdPc, cmdLocal, sfCalls>>
    /\ UNCHANGED execVars

CallParseMultipleResults ==
    /\ fn = "ParseMultipleResults"
    /\ ~fnDone
    /\ fnRet' = ParseMultipleResults(fnArg)
    /\ fnDone' = TRUE
    /\ UNCHANGED <<fn, fnArg, cmdPc, cmdLocal, sfCalls>>
    /\ UNCHANGED execVars

ParserNext == CallParseResult \/ CallParseMultipleResults

ParserSpec == ParserInit /\ [][ParserNext]_vars

\* ------------------------------------------------ claims on the parser
ParseResultReturned == fn = "ParseResult" /\ fnDone
ParseMultipleResultsReturned == fn = "ParseMultipleResults" /\ fnDone

Min(S) == CHOOSE x \in S : \A y \in S : x <= y

\* The positions of the marker's occurrences in a text.
MarkerPositions(text) == {p \in 1 .. Len(text) : text[p] = Marker}
\* Opening minus closing braces among the first k lexemes.
Balance(text, k) ==
    Cardinality({j \in 1 .. k : text[j] = "{"})
    - Cardinality({j \in 1 .. k : text[j] = "}"})
\* The closing braces at which what follows a marker is brace-balanced.
CandidateEnds(rest) ==
    {k \in 1 .. Len(rest) : rest[k] = "}" /\ Balance(rest, k) = 0}
\* The brace-balanced candidate of the occurrence at position p.
Candidate(text, p) ==
    LET rest == SubSeq(text, p + 1, Len(text))
    IN  IF CandidateEnds(rest) = {} THEN <<>>
        ELSE SubSeq(rest, 1, Min(CandidateEnds(rest)))
WellFormed(text, p) == UnmarshalResult(Candidate(text, p)).ok
Payload(text, p) == UnmarshalResult(Candidate(text, p)).result
EndsWith(text, suffix) ==
    /\ Len(text) >= Len(suffix)
    /\ SubSeq(text, Len(text) - Len(suffix) + 1, Len(text)) = suffix

\* C12: ParseResult returns the payload of the leftmost marker occurrence
\* whose brace-balanced candidate decodes into a Result, whatever
\* malformed occurrences precede it and whatever follows it; when no
\* occurrence decodes it fails with an error holding the whole raw text.
C12_FirstDecodableOccurrence ==
    ParseResultReturned =>
        LET text == fnArg.text
            good == {p \in MarkerPositions(text) : WellFormed(text, p)}
        IN  IF good = {}
            THEN /\ ~fnRet.err.isNil
                 /\ EndsWith(fnRet.err.msg, text)
                 /\ fnRet.result = ZeroResult
            ELSE /\ fnRet.err.isNil
                 /\ fnRet.result = Payload(text, Min(good))

\* Two occurrences, the first malformed and the second well-formed: the
\* second's payload has been returned.
C12_Witness ==
    /\ ParseResultReturned
    /\ Cardinality(MarkerPositions(fnArg.text)) = 2
    /\ \E p, q \in MarkerPositions(fnArg.text) :
          /\ p < q
          /\ ~WellFormed(fnArg.text, p)
          /\ WellFormed(fnArg.text, q)
          /\ Payload(fnArg.text, q) = ResultB
    /\ fnRet.err.isNil
    /\ fnRet.result = ResultB

\* The text is the marker immediately followed by the JSON object of r.
SerializedFrom(r) ==
    /\ ParseResultReturned
    /\ fnArg.source = <<r>>
    /\ fnArg.text = MarkerText \o Marshal(r)

\* Every "}" of the text closes an earlier "{" of it, and every "{" is
\* closed.
BracesBalanced(text) ==
    /\ \A k \in 1 .. Len(text) : Balance(text, k) >= 0
    /\ Balance(text, Len(text)) = 0

FailingOutputs(outputs) ==
    {k \in 1 .. Len(outputs) : ~ParseResult(outputs[k]).err.isNil}
OutputLabel(k) == <<"output ">> \o Itoa(k) \o <<": ">>

\* C14: when every output parses, ParseMultipleResults returns as many
\* results as outputs, the k-th parsed from the k-th output; when some
\* output fails it returns no results and one error with an entry
\* "output <i+1>" for every failing index i, and for no other.
C14_BatchAllOrNothing ==
    ParseMultipleResultsReturned =>
        IF FailingOutputs(fnArg) = {}
        THEN /\ fnRet.err.isNil
             /\ Len(fnRet.results) = Len(fnArg)
             /\ \A k \in 1 .. Len(fnArg) :
                   fnRet.results[k] = ParseResult(fnArg[k]).result
        ELSE /\ fnRet.results = <<>>
             /\ ~fnRet.err.isNil
             /\ \A k \in 1 .. Len(fnArg) :
                   Cardinality(Occurrences(fnRet.err.msg, OutputLabel(k)))
                       = IF k \in FailingOutputs(fnArg) THEN 1 ELSE 0

\* The first and the last of three outputs fail, the middle one parses:
\* nothing is returned but an error naming outputs 1 and 3.
C14_Witness ==
    /\ ParseMultipleResultsReturned
    /\ Len(fnArg) = 3
    /\ FailingOutputs(fnArg) = {1, 3}
    /\ fnRet.results = <<>>
    /\ Occurrences(fnRet.err.msg, OutputLabel(1)) # {}
    /\ Occurrences(fnRet.err.msg, OutputLabel(3)) # {}

\* =====================================================================
\* pkg/stats: statistics over the Results of the runs
\* =====================================================================
\* A float64 that a Result holds is an integer here.  What Aggregate
\* computes from them is an exact fraction [num, den] in lowest terms
\* (den > 0), the square root of a fraction that has no rational root is
\* [radicand], and 0/0 is NaN.
RECURSIVE GCD(_, _)
GCD(a, b) == IF b = 0 THEN a ELSE GCD(b, a % b)
Abs(n) == IF n < 0 THEN 0 - n ELSE n

NaN == [nan |-> TRUE]
\* The fraction n / d, for d > 0.
Frac(n, d) ==
    LET g == GCD(Abs(n), d) IN [num |-> n \div g, den |-> d \div g]
Float(n) == [num |-> n, den |-> 1]

HasRoot(n) == \E k \in 0 .. n : k * k = n
Root(n) == CHOOSE k \in 0 .. n : k * k = n
\* math.Sqrt of a fraction that is not negative
Sqrt(x) ==
    IF x = NaN THEN NaN
    ELSE IF HasRoot(x.num) /\ HasRoot(x.den)
    THEN [num |-> Root(x.num), den |-> Root(x.den)]
    ELSE [radicand |-> x]

RECURSIVE SumFrom(_, _, _)
SumFrom(values, k, sum) ==
    IF k >= Len(values) THEN sum
    ELSE SumFrom(values, k + 1, sum + values[k + 1])

\* mean(values)
Mean(values) ==
    IF Len(values) = 0 THEN Float(0)
    ELSE Frac(SumFrom(values, 0, 0), Len(values))

\* The loop of stdDev: each diff = v - avg is a fraction over avg.den, so
\* sumSquares is kept as a numerator over avg.den * avg.den.
RECURSIVE SumSquaresFrom(_, _, _, _)
SumSquaresFrom(values, avg, k, sumSquares) ==
    IF k >= Len(values) THEN sumSquares
    ELSE LET diff == (values[k + 1] * avg.den) - avg.num
         IN  SumSquaresFrom(values, avg, k + 1, sumSquares + (diff * diff))

\* sumSquares / float64(n), for the numerator kept by the loop
Variance(sumSquares, avg, n) ==
    IF n = 0 THEN NaN ELSE Frac(sumSquares, avg.den * avg.den * n)

\* Faulty variant: the sample deviation, divided by N - 1.
StdDevSample(values) ==
    IF Len(values) = 0 THEN Float(0)
    ELSE Sqrt(Variance(SumSquaresFrom(values, Mean(values), 0, 0),
                       Mean(values), Len(values) - 1))

\* stdDev(values)
StdDev(values) ==
    IF Len(values) = 0 THEN Float(0)
    ELSE Sqrt(Variance(SumSquaresFrom(values, Mean(values), 0, 0),
                       Mean(values), Len(values)))

\* The slice of one field of the Results (cpuTimes, wallTimes).
Column(res, field) == [k \in 1 .. Len(res) |-> res[k][field]]

\* Faulty variant: the first Result's minimum stands for all.
MinOverFirstOnly(res, field, k, min) == min

\* The minimum kept by Aggregate's loop from slice index k on.
RECURSIVE MinOver(_, _, _, _)
MinOver(res, field, k, min) ==
    IF k >= Len(res) THEN min
    ELSE MinOver(res, field, k + 1,
                 IF res[k + 1][field] < min
                 THEN res[k + 1][field] ELSE min)

RECURSIVE MaxOver(_, _, _, _)
MaxOver(res, field, k, max) ==
    IF k >= Len(res) THEN max
    ELSE MaxOver(res, field, k + 1,
                 IF res[k + 1][field] > max
                 THEN res[k + 1][field] ELSE max)

ZeroAggregatedResult ==
    [name |-> <<>>, runs |-> 0, iterations |-> 0, warmup |-> 0,
     avgCpuMs |-> Float(0), stdDevCpuMs |-> Float(0),
     minCpuMs |-> 0, maxCpuMs |-> 0,
     avgWallMs |-> Float(0), stdDevWallMs |-> Float(0),
     minWallMs |-> 0, maxWallMs |-> 0, rawResults |-> <<>>]

\* Aggregate's result for a sequence that is not empty.
Aggregated(res) ==
    [name |-> res[1].name,
     runs |-> Len(res),
     iterations |-> res[1].iterations,
     warmup |-> 0,
     rawResults |-> res,
     avgCpuMs |-> Mean(Column(res, "avgCpuMs")),
     stdDevCpuMs |-> StdDev(Column(res, "avgCpuMs")),
     minCpuMs |-> MinOver(res, "minCpuMs", 0, res[1].minCpuMs),
     maxCpuMs |-> MaxOver(res, "maxCpuMs", 0, res[1].maxCpuMs),
     avgWallMs |-> Mean(Column(res, "avgWallMs")),
     stdDevWallMs |-> StdDev(Column(res, "avgWallMs")),
     minWallMs |-> MinOver(res, "minWallMs", 0, res[1].minWallMs),
     maxWallMs |-> MaxOver(res, "maxWallMs", 0, res[1].maxWallMs)]

\* Faulty variant: an empty sequence is aggregated into the zero value.
AggregateAcceptsEmpty(res) ==
    IF Len(res) = 0
    THEN [agg |-> ZeroAggregatedResult, err |-> NilErr]
    ELSE [agg |-> Aggregated(res), err |-> NilErr]

Aggregate(res) ==
    IF Len(res) = 0
    THEN [agg |-> ZeroAggregatedResult,
          err |-> Errorf(<<"cannot aggregate empty results">>)]
    ELSE [agg |-> Aggregated(res), err |-> NilErr]

\* ------------------------------------------------------- stats inputs
MaxResults == 3

\* The Results of runs: averages with a spread around them.
RunResult(name, iterations, avgCpu, avgWall, spread) ==
    [ZeroResult EXCEPT !.name = name, !.iterations = iterations,
                       !.avgCpuMs = avgCpu, !.avgWallMs = avgWall,
                       !.minCpuMs = avgCpu - spread,
                       !.maxCpuMs = avgCpu + spread,
                       !.minWallMs = avgWall - 1,
                       !.maxWallMs = avgWall + spread]

RunResults ==
    {RunResult(<<"Test">>, 100, avgCpu, avgWall, 1) :
        avgCpu \in {1, 2, 4}, avgWall \in {2, 5}}
    \cup {RunResult(<<"Other">>, 50, avgCpu, avgWall, 2) :
            avgCpu \in {1, 2, 4}, avgWall \in {2, 5}}

AggregateArgs == UNION {[1 .. n -> RunResults] : n \in 0 .. MaxResults}

StatsInit ==
    /\ ExecIdle
    /\ fn = "Aggregate"
    /\ fnArg \in AggregateArgs
    /\ fnDone = FALSE
    /\ fnRet = <<>>
    /\ cmdPc = ""
    /\ cmdLocal = <<>>
    /\ sfCalls = <<>>

CallAggregate ==
    /\ fn = "Aggregate"
    /\ ~fnDone
    /\ fnRet' = Aggregate(fnArg)
    /\ fnDone' = TRUE
    /\ UNCHANGED <<fn, fnArg, cmdPc, cmdLocal, sfCalls>>
    /\ UNCHANGED execVars

StatsSpec == StatsInit /\ [][CallAggregate]_vars

\* ------------------------------------------------- claims on the stats
AggregateReturned == fn = "Aggregate" /\ fnDone

\* C15: Aggregate fails on an empty sequence; on any other it succeeds
\* with Runs equal to the length of RawResults, which is the input in its
\* order; a result with Runs = 0 never comes without an error.
C15_RunsCountsRawResults ==
    AggregateReturned =>
        /\ (Len(fnArg) = 0) <=> ~fnRet.err.isNil
        /\ fnRet.err.isNil =>
              /\ fnRet.agg.runs = Len(fnRet.agg.rawResults)
              /\ fnRet.agg.rawResults = fnArg
              /\ fnRet.agg.runs > 0
        /\ fnRet.agg.runs = 0 => ~fnRet.err.isNil

\* Three Results, not all the same, have been aggregated.
C15_Witness ==
    /\ AggregateReturned
    /\ Len(fnArg) = 3
    /\ fnArg[1] # fnArg[2]
    /\ fnRet.err.isNil
    /\ fnRet.agg.runs = 3
    /\ fnRet.agg.rawResults = fnArg

\* The exact sum of a slice of values.
RECURSIVE Sum(_)
Sum(values) == IF values = <<>> THEN 0 ELSE values[1] + Sum(Tail(values))

\* N^2 times the sum of the squared deviations from the mean Sum/N.
RECURSIVE ScaledSquares(_, _, _)
ScaledSquares(values, n, total) ==
    IF values = <<>> THEN 0
    ELSE (((n * values[1]) - total) * ((n * values[1]) - total))
         + ScaledSquares(Tail(values), n, total)

\* x is the fraction n / d.
IsFraction(x, n, d) ==
    /\ DOMAIN x = {"num", "den"}
    /\ x.den > 0
    /\ x.num * d = n * x.den

\* The square of a value that Sqrt returns.
Square(x) ==
    IF DOMAIN x = {"radicand"} THEN x.radicand
    ELSE [num |-> x.num * x.num, den |-> x.den * x.den]

IsMeanOf(avg, values) == IsFraction(avg, Sum(values), Len(values))
\* The deviation squared is the sum of squared deviations divided by N.
IsPopulationStdDevOf(dev, values) ==
    LET n == Len(values)
    IN  /\ dev # NaN
        /\ DOMAIN dev = {"num", "den"} => dev.num >= 0
        /\ IsFraction(Square(dev),
                      ScaledSquares(values, n, Sum(values)), n * n * n)
IsLeastOf(min, values) ==
    /\ \E k \in 1 .. Len(values) : values[k] = min
    /\ \A k \in 1 .. Len(values) : min <= values[k]
IsGreatestOf(max, values) ==
    /\ \E k \in 1 .. Len(values) : values[k] = max
    /\ \A k \in 1 .. Len(values) : max >= values[k]

\* C16: for a sequence of N > 0 Results, and separately for CPU and wall
\* time, the mean is the sum of the averages divided by N, the standard
\* deviation squared is the sum of their squared deviations divided by N,
\* the minimum is the least minimum and the maximum the greatest maximum;
\* name and iterations are the first Result's.
C16_Statistics ==
    (AggregateReturned /\ Len(fnArg) > 0) =>
        /\ fnRet.err.isNil
        /\ IsMeanOf(fnRet.agg.avgCpuMs, Column(fnArg, "avgCpuMs"))
        /\ IsMeanOf(fnRet.agg.avgWallMs, Column(fnArg, "avgWallMs"))
        /\ IsPopulationStdDevOf(fnRet.agg.stdDevCpuMs,
                                Column(fnArg, "avgCpuMs"))
        /\ IsPopulationStdDevOf(fnRet.agg.stdDevWallMs,
                                Column(fnArg, "avgWallMs"))
        /\ IsLeastOf(fnRet.agg.minCpuMs, Column(fnArg, "minCpuMs"))
        /\ IsLeastOf(fnRet.agg.minWallMs, Column(fnArg, "minWallMs"))
        /\ IsGreatestOf(fnRet.agg.maxCpuMs, Column(fnArg, "maxCpuMs"))
        /\ IsGreatestOf(fnRet.agg.maxWallMs, Column(fnArg, "maxWallMs"))
        /\ fnRet.agg.name = fnArg[1].name
        /\ fnRet.agg.iterations = fnArg[1].iterations

\* CPU averages 1, 2, 4 and wall averages 5, 2, 2, the least minimum not
\* in the first Result: mean 7/3 and variance 14/9 for CPU, mean 3 and
\* variance 2 for wall.
C16_Witness ==
    /\ AggregateReturned
    /\ Column(fnArg, "avgCpuMs") = <<2, 4, 1>>
    /\ Column(fnArg, "avgWallMs") = <<5, 2, 2>>
    /\ fnArg[1].name # fnArg[2].name
    /\ fnRet.agg.avgCpuMs = [num |-> 7, den |-> 3]
    /\ fnRet.agg.stdDevCpuMs = [radicand |-> [num |-> 14, den |-> 9]]
    /\ fnRet.agg.avgWallMs = [num |-> 3, den |-> 1]
    /\ fnRet.agg.stdDevWallMs = [radicand |-> [num |-> 2, den |-> 1]]
    /\ fnRet.agg.minCpuMs < fnArg[1].minCpuMs
    /\ fnRet.agg.name = fnArg[1].name

\* C17: for a sequence of exactly one Result the standard deviations are
\* exactly 0, and mean, minimum and maximum are that Result's own average,
\* minimum and maximum, for CPU and for wall time.
C17_SingleResult ==
    (AggregateReturned /\ Len(fnArg) = 1) =>
        /\ fnRet.err.isNil
        /\ fnRet.agg.stdDevCpuMs = Float(0)
        /\ fnRet.agg.stdDevWallMs = Float(0)
        /\ fnRet.agg.avgCpuMs = Float(fnArg[1].avgCpuMs)
        /\ fnRet.agg.avgWallMs = Float(fnArg[1].avgWallMs)
        /\ fnRet.agg.minCpuMs = fnArg[1].minCpuMs
        /\ fnRet.agg.maxCpuMs = fnArg[1].maxCpuMs
        /\ fnRet.agg.minWallMs = fnArg[1].minWallMs
        /\ fnRet.agg.maxWallMs = fnArg[1].maxWallMs

\* One Result whose average differs from 0 has been aggregated.
C17_Witness ==
    /\ AggregateReturned
    /\ Len(fnArg) = 1
    /\ fnArg[1].avgCpuMs = 4
    /\ fnRet.agg.avgCpuMs = Float(4)
    /\ fnRet.agg.stdDevCpuMs = Float(0)
    /\ fnRet.agg.runs = 1

\* =====================================================================
\* pkg/reporter: the comparison table
\* =====================================================================
PosInf == [inf |-> TRUE]

\* x / y for two fractions that are not negative
FloatDiv(x, y) ==
    IF y.num = 0 THEN (IF x.num = 0 THEN NaN ELSE PosInf)
    ELSE Frac(x.num * y.den, x.den * y.num)
\* x < y
FloatLess(x, y) == x.num * y.den < y.num * x.den

RECURSIVE Pow10(_)
Pow10(k) == IF k = 0 THEN 1 ELSE 10 * Pow10(k - 1)

\* The integer nearest to n / d, a tie going to the even one.
RoundQuotient(n, d) ==
    LET q == n \div d
        r == n % d
    IN  IF 2 * r < d THEN q
        ELSE IF 2 * r > d THEN q + 1
        ELSE IF q % 2 = 0 THEN q ELSE q + 1

\* fmt's %.<digits>f of a float64 that is not negative
FormatFloat(x, digits) ==
    IF x = NaN THEN <<"NaN">>
    ELSE IF x = PosInf THEN <<"+Inf">>
    ELSE LET scaled == RoundQuotient(x.num * Pow10(digits), x.den)
         IN  Itoa(scaled \div Pow10(digits)) \o <<".">>
             \o [k \in 1 .. digits |->
                    Digit[((scaled \div Pow10(digits - k)) % 10) + 1]]

\* The loop that finds the fastest entry, from slice index k on.
RECURSIVE FastestFrom(_, _, _, _)
FastestFrom(res, k, fastestCpu, fastestIdx) ==
    IF k >= Len(res) THEN [fastestCpu |-> fastestCpu, fastestIdx |-> fastestIdx]
    ELSE IF FloatLess(res[k + 1].avgCpuMs, fastestCpu)
    THEN FastestFrom(res, k + 1, res[k + 1].avgCpuMs, k)
    ELSE FastestFrom(res, k + 1, fastestCpu, fastestIdx)

\* The row appended for the entry of slice index k.  The last lexeme of the
\* fastest entry's cell, " *", stands for the blank and the star glyph.
ComparisonRow(res, k, fastest) ==
    <<res[k + 1].name,
      FormatFloat(res[k + 1].avgCpuMs, 3) \o <<" ms">>,
      FormatFloat(Float(res[k + 1].minCpuMs), 3) \o <<" ms">>,
      FormatFloat(Float(res[k + 1].maxCpuMs), 3) \o <<" ms">>,
      IF k = fastest.fastestIdx THEN <<"1", ".", "0", "0", "x", " *">>
      ELSE FormatFloat(FloatDiv(res[k + 1].avgCpuMs, fastest.fastestCpu), 2)
           \o <<"x">>>>

ComparisonHeader == <<"Name", "Avg CPU", "Min CPU", "Max CPU", "Relative">>

\* PrintComparison(results, writer): the error, and what was written (the
\* table's header and rows, then the line naming the fastest entry).
PrintComparison(res) ==
    IF Len(res) = 0
    THEN [err |-> Errorf(<<"no results to display">>),
          header |-> <<>>, rows |-> <<>>, fastestLine |-> <<>>]
    ELSE LET fastest == FastestFrom(res, 0, res[1].avgCpuMs, 0)
         IN  [err |-> NilErr,
              header |-> ComparisonHeader,
              rows |-> [k \in 1 .. Len(res) |->
                           ComparisonRow(res, k - 1, fastest)],
              fastestLine |-> <<"\nFastest: ">>
                              \o res[fastest.fastestIdx + 1].name
                              \o <<"\n">>]

\* ---------------------------------------------------- reporter inputs
MaxEntries == 3

ComparedEntry(name, avgCpu) ==
    [ZeroAggregatedResult EXCEPT !.name = name, !.runs = 1,
                                 !.avgCpuMs = avgCpu, !.maxCpuMs = 3]

ComparedEntries ==
    {ComparedEntry(name, avgCpu) :
        name \in {<<"Method A">>, <<"Method B">>},
        avgCpu \in {Float(0), Float(1), Frac(3, 2), Float(2), Frac(5, 2)}}

PrintComparisonArgs ==
    UNION {[1 .. n -> ComparedEntries] : n \in 0 .. MaxEntries}

ReporterInit ==
    /\ ExecIdle
    /\ fn = "PrintComparison"
    /\ fnArg \in PrintComparisonArgs
    /\ fnDone = FALSE
    /\ fnRet = <<>>
    /\ cmdPc = ""
    /\ cmdLocal = <<>>
    /\ sfCalls = <<>>

CallPrintComparison ==
    /\ fn = "PrintComparison"
    /\ ~fnDone
    /\ fnRet' = PrintComparison(fnArg)
    /\ fnDone' = TRUE
    /\ UNCHANGED <<fn, fnArg, cmdPc, cmdLocal, sfCalls>>
    /\ UNCHANGED execVars

ReporterSpec == ReporterInit /\ [][CallPrintComparison]_vars

\* ---------------------------------------------- claims on the reporter
PrintComparisonReturned == fn = "PrintComparison" /\ fnDone

\* The cell reads <digits>.<two digits>x and that number is the quotient
\* a / b rounded to hundredths.
IsMultipleCell(cell, a, b) ==
    /\ Len(cell) >= 5
    /\ cell[Len(cell)] = "x"
    /\ cell[Len(cell) - 3] = "."
    /\ IsDigits(SubSeq(cell, 1, Len(cell) - 4))
    /\ IsDigit(cell[Len(cell) - 2])
    /\ IsDigit(cell[Len(cell) - 1])
    /\ b.num > 0
    /\ LET h == (100 * DigitsValue(SubSeq(cell, 1, Len(cell) - 4)))
                + (10 * DigitValue(cell[Len(cell) - 2]))
                + DigitValue(cell[Len(cell) - 1])
       IN  Abs((200 * a.num * b.den) - (2 * h * a.den * b.num))
               <= a.den * b.num

\* Entry f has the least average CPU value, is named in the "Fastest:"
\* line and is reported as 1.00x; the other entries are reported as
\* multiples of its value.
MarkedFastest(f) ==
    /\ \A k \in 1 .. Len(fnArg) :
          ~FloatLess(fnArg[k].avgCpuMs, fnArg[f].avgCpuMs)
    /\ fnRet.fastestLine = <<"\nFastest: ">> \o fnArg[f].name \o <<"\n">>
    /\ StartsWith(fnRet.rows[f][5], <<"1", ".", "0", "0", "x">>)
    /\ \A k \in (1 .. Len(fnArg)) \ {f} :
          IsMultipleCell(fnRet.rows[k][5], fnArg[k].avgCpuMs,
                         fnArg[f].avgCpuMs)

\* C18: PrintComparison fails on an empty sequence; otherwise it writes
\* one row per entry in input order, marks an entry of least average CPU
\* value as fastest with 1.00x, and reports every other entry's value as
\* a multiple of the fastest one.
C18_FastestAndMultiples ==
    PrintComparisonReturned =>
        IF Len(fnArg) = 0 THEN ~fnRet.err.isNil /\ fnRet.rows = <<>>
        ELSE /\ fnRet.err.isNil
             /\ Len(fnRet.rows) = Len(fnArg)
             /\ \A k \in 1 .. Len(fnArg) : fnRet.rows[k][1] = fnArg[k].name
             /\ \E f \in 1 .. Len(fnArg) : MarkedFastest(f)

\* C18, for entries whose least average CPU value is not 0.
C18_FastestAndMultiplesNonZero ==
    (PrintComparisonReturned
     /\ \A k \in 1 .. Len(fnArg) : fnArg[k].avgCpuMs.num > 0)
        => C18_FastestAndMultiples

\* The spec's example: averages 1, 2 and 3/2 give 1.00x, 2.00x and 1.50x.
C18_Witness ==
    /\ PrintComparisonReturned
    /\ Len(fnArg) = 3
    /\ fnArg[1].avgCpuMs = Float(1)
    /\ fnArg[2].avgCpuMs = Float(2)
    /\ fnArg[3].avgCpuMs = Frac(3, 2)
    /\ fnRet.rows[1][5] = <<"1", ".", "0", "0", "x", " *">>
    /\ fnRet.rows[2][5] = <<"2", ".", "0", "0", "x">>
    /\ fnRet.rows[3][5] = <<"1", ".", "5", "0", "x">>
    /\ fnRet.fastestLine = <<"\nFastest: ">> \o fnArg[1].name \o <<"\n">>

\* The fastest entry's average is 0 and another entry is reported as
\* NaNx or +Infx.
C18_ZeroFastest ==
    /\ PrintComparisonReturned
    /\ Len(fnArg) = 2
    /\ fnArg[1].avgCpuMs = Float(0)
    /\ fnRet.err.isNil
    /\ fnRet.rows[2][5] \in {<<"NaN", "x">>, <<"+Inf", "x">>}

\* =====================================================================
\* pkg/generator: validation and code generation
\* =====================================================================
\* Here a text is a sequence of characters.
IsSpace(c) == c \in {" ", "\t", "\n", "\r"}

\* strings.TrimSpace
TrimSpace(text) ==
    LET keep == {k \in 1 .. Len(text) : ~IsSpace(text[k])}
    IN  IF keep = {} THEN <<>>
        ELSE SubSeq(text, CHOOSE k \in keep : \A j \in keep : k <= j,
                          CHOOSE k \in keep : \A j \in keep : k >= j)

\* validateSpec with the warmup test written as for the iterations.
ValidateSpecWarmupPositive(spec) ==
    IF TrimSpace(spec.userCode) = <<>>
    THEN Errorf(<<"user code cannot be empty">>)
    ELSE IF spec.iterations <= 0
    THEN Errorf(<<"iterations must be positive, got ">> \o Itoa(spec.iterations))
    ELSE IF spec.warmup <= 0
    THEN Errorf(<<"warmup cannot be negative, got ">> \o Itoa(spec.warmup))
    ELSE IF TrimSpace(spec.name) = <<>>
    THEN Errorf(<<"benchmark name cannot be empty">>)
    ELSE NilErr

validateSpec(spec) ==
    IF TrimSpace(spec.userCode) = <<>>
    THEN Errorf(<<"user code cannot be empty">>)
    ELSE IF spec.iterations <= 0
    THEN Errorf(<<"iterations must be positive, got ">> \o Itoa(spec.iterations))
    ELSE IF spec.warmup < 0
    THEN Errorf(<<"warmup cannot be negative, got ">> \o Itoa(spec.warmup))
    ELSE IF TrimSpace(spec.name) = <<>>
    THEN Errorf(<<"benchmark name cannot be empty">>)
    ELSE NilErr

\* {{if .X}} body {{end}}
TemplateIf(cond, text) == IF cond THEN text ELSE <<>>

\* The template executed on the data: the lines that depend on the data,
\* and one lexeme for each block of fixed lines between them.  The
\* template does not mention LoopVar.
apexTemplate(data) ==
    <<"// Benchmark: ">> \o data.name
    \o <<"// Iterations: ">> \o Itoa(data.iterations)
    \o <<"// Warmup: ">> \o Itoa(data.warmup)
    \o TemplateIf(data.setup # <<>>, <<"// Setup code">> \o data.setup)
    \o <<"Integer warmupIterations = ">> \o Itoa(data.warmup) \o <<";">>
    \o <<"Integer measurementIterations = ">> \o Itoa(data.iterations) \o <<";">>
    \o <<"for (Integer i = 0; i < warmupIterations; i++) {">>
    \o data.userCode \o <<"}">>
    \o <<"<declare wall and cpu totals>">>
    \o TemplateIf(data.trackHeap, <<"<declare heap totals>">>)
    \o TemplateIf(data.trackDB, <<"<read dml and soql before>">>)
    \o <<"for (Integer i = 0; i < measurementIterations; i++) {">>
    \o TemplateIf(data.trackHeap, <<"<read heap before>">>)
    \o <<"<read wall and cpu start>">>
    \o data.userCode
    \o <<"<read wall and cpu end>">>
    \o TemplateIf(data.trackHeap, <<"<add heap delta>">>)
    \o <<"<add wall and cpu delta>", "}">>
    \o TemplateIf(data.trackDB, <<"<read dml and soql after>">>)
    \o TemplateIf(data.teardown # <<>>, <<"// Teardown code">> \o data.teardown)
    \o <<"<averages>">>
    \o TemplateIf(data.trackHeap, <<"<heap averages>">>)
    \o <<"String resultJson = '{' + '\"name\":\"">> \o data.name \o <<"\",' +">>
    \o <<"<iterations, wall and cpu members>">>
    \o TemplateIf(data.trackHeap, <<"<heap members>">>)
    \o TemplateIf(data.trackDB, <<"<dml and soql members>">>)
    \o <<"'}';", "System.debug('", Marker, "' + resultJson);">>

\* Faulty variant: the template is given the iteration count as warmup.
GenerateWarmupFromIterations(spec, loopVar) ==
    LET err == validateSpec(spec)
    IN  IF ~err.isNil THEN [source |-> <<>>, err |-> err]
        ELSE [source |-> apexTemplate([spec EXCEPT !.warmup = spec.iterations]
                                      @@ [loopVar |-> loopVar]),
              err |-> NilErr]

\* Generate(spec), with the loop variable name drawn from the UUID.
Generate(spec, loopVar) ==
    LET err == validateSpec(spec)
    IN  IF ~err.isNil THEN [source |-> <<>>, err |-> err]
        ELSE [source |-> apexTemplate(spec @@ [loopVar |-> loopVar]),
              err |-> NilErr]

\* --------------------------------------------------- generator inputs
MaxIterations == 2
MaxWarmup == 1

\* The marker stands in a text as one element.
CodeTexts ==
    {<<>>, <<" ", "\t", "\n">>, <<"x", ";">>, <<" ", "x", ";", "\n">>,
     <<"System.debug('", Marker, "');">>}
NameTexts == {<<>>, <<" ", " ">>, <<"T">>, <<" ", "T">>, <<Marker, "T">>}
SetupTexts == {<<>>, <<"s", ";">>, <<"// ", Marker>>}
TeardownTexts == {<<>>, <<"// ", Marker, Marker>>}

CodeSpecs ==
    [name : NameTexts, userCode : CodeTexts,
     setup : SetupTexts, teardown : TeardownTexts,
     iterations : (0 - 1) .. MaxIterations, warmup : (0 - 1) .. MaxWarmup,
     trackHeap : BOOLEAN, trackDB : BOOLEAN]

LoopVars == {<<"i_", "uuid1">>, <<"i_", "uuid2">>}

GeneratorInit ==
    /\ ExecIdle
    /\ fn = "Generate"
    /\ fnArg \in CodeSpecs
    /\ fnDone = FALSE
    /\ fnRet = <<>>
    /\ cmdPc = ""
    /\ cmdLocal = <<>>
    /\ sfCalls = <<>>

CallGenerate ==
    /\ fn = "Generate"
    /\ ~fnDone
    /\ \E loopVar \in LoopVars :
          /\ fnRet' = Generate(fnArg, loopVar)
          /\ cmdLocal' = IF fnRet'.err.isNil THEN <<loopVar>> ELSE <<>>
    /\ fnDone' = TRUE
    /\ UNCHANGED <<fn, fnArg, cmdPc, sfCalls>>
    /\ UNCHANGED execVars

GeneratorSpec == GeneratorInit /\ [][CallGenerate]_vars

\* --------------------------------------------- claims on the generator
GenerateReturned == fn = "Generate" /\ fnDone

\* Empty, or nothing but white space.
Blank(text) == \A k \in 1 .. Len(text) : IsSpace(text[k])

Malformed(spec) ==
    \/ Blank(spec.userCode)
    \/ Blank(spec.name)
    \/ spec.iterations <= 0
    \/ spec.warmup < 0

\* C19: validateSpec, and with it Generate, fails exactly when the user
\* code is blank, the name is blank, the iteration count is not positive
\* or the warmup count is negative; a failing Generate returns the empty
\* source text.
C19_ValidationFailsIffMalformed ==
    GenerateReturned =>
        /\ ~validateSpec(fnArg).isNil <=> Malformed(fnArg)
        /\ ~fnRet.err.isNil <=> Malformed(fnArg)
        /\ ~fnRet.err.isNil => fnRet.source = <<>>

\* A spec with warmup 0 and padded user code was accepted.
C19_Witness ==
    /\ GenerateReturned
    /\ fnArg.warmup = 0
    /\ fnArg.userCode = <<" ", "x", ";", "\n">>
    /\ fnRet.err.isNil
    /\ fnRet.source # <<>>

\* strings.Contains, on lexemes
Contains(text, tok) == \E k \in 1 .. Len(text) : text[k] = tok

\* strings.Count and strings.Contains of a piece of text
CountOf(text, tok) == Cardinality({k \in 1 .. Len(text) : text[k] = tok})
ContainsText(text, sub) ==
    \E k \in 1 .. Len(text) - Len(sub) + 1 :
        SubSeq(text, k, k + Len(sub) - 1) = sub

Generated == GenerateReturned /\ fnRet.err.isNil

\* The marker is the operand of the output statement that ends the text.
DesignatedStatement(source) ==
    /\ Len(source) >= 3
    /\ SubSeq(source, Len(source) - 2, Len(source))
           = <<"System.debug('", Marker, "' + resultJson);">>

\* The name (in the header and in the JSON), the iteration count and the
\* warmup count stand in the text as they were given.
LiteralsSubstituted(spec, source) ==
    /\ ContainsText(source, <<"// Benchmark: ">> \o spec.name)
    /\ ContainsText(source, <<"String resultJson = '{' + '\"name\":\"">>
                                \o spec.name \o <<"\",' +">>)
    /\ ContainsText(source, <<"// Iterations: ">> \o Itoa(spec.iterations))
    /\ ContainsText(source, <<"Integer measurementIterations = ">>
                                \o Itoa(spec.iterations) \o <<";">>)
    /\ ContainsText(source, <<"// Warmup: ">> \o Itoa(spec.warmup))
    /\ ContainsText(source, <<"Integer warmupIterations = ">>
                                \o Itoa(spec.warmup) \o <<";">>)

\* The occurrences of the marker in the texts of the spec, as many times
\* as the template writes each text.
MarkersGiven(spec) ==
    2 * CountOf(spec.name, Marker) + 2 * CountOf(spec.userCode, Marker)
    + CountOf(spec.setup, Marker) + CountOf(spec.teardown, Marker)

\* C21 (as stated): for any valid spec the source Generate returns
\* contains the marker exactly once, in the designated output statement,
\* and contains the name, the iteration count and the warmup count as
\* literal text.
C21_MarkerOnce ==
    Generated =>
        /\ CountOf(fnRet.source, Marker) = 1
        /\ DesignatedStatement(fnRet.source)
        /\ LiteralsSubstituted(fnArg, fnRet.source)

\* C21 (amended): the source ends with the designated output statement
\* and contains the name, the iteration count and the warmup count as
\* literal text; the template itself writes the marker once, and the
\* source contains it once more for every occurrence in the setup or
\* teardown and twice more for every occurrence in the name or the user
\* code: exactly once when none of the texts contains it.
C21_MarkerOncePlusGiven ==
    Generated =>
        /\ CountOf(fnRet.source, Marker) = 1 + MarkersGiven(fnArg)
        /\ MarkersGiven(fnArg) = 0 => CountOf(fnRet.source, Marker) = 1
        /\ DesignatedStatement(fnRet.source)
        /\ LiteralsSubstituted(fnArg, fnRet.source)

\* A spec without the marker, with setup code and different counts, was
\* generated.
C21_Witness ==
    /\ Generated
    /\ MarkersGiven(fnArg) = 0
    /\ fnArg.setup = <<"s", ";">>
    /\ fnArg.iterations = 2
    /\ fnArg.warmup = 1
    /\ CountOf(fnRet.source, Marker) = 1

\* User code that writes the marker itself was generated: the source
\* contains the marker three times.
C21_MarkerInUserCode ==
    /\ Generated
    /\ fnArg.userCode = <<"System.debug('", Marker, "');">>
    /\ MarkersGiven(fnArg) = 2
    /\ CountOf(fnRet.source, Marker) = 3

\* C22: the counter of the generator's warmup and measurement loops is
\* the identifier minted for the invocation, not a fixed name: the source
\* declares the minted identifier, another identifier would have given
\* another source, and no loop declares the fixed counter i.
C22_UniqueLoopVar ==
    Generated =>
        /\ ContainsText(fnRet.source, cmdLocal[1])
        /\ \A other \in LoopVars \ {cmdLocal[1]} :
              Generate(fnArg, other).source # fnRet.source
        /\ ~Contains(fnRet.source,
                     "for (Integer i = 0; i < warmupIterations; i++) {")
        /\ ~Contains(fnRet.source,
                     "for (Integer i = 0; i < measurementIterations; i++) {")

\* A source was generated whose loops declare the fixed counter i and
\* which does not mention the identifier minted for the invocation.
C22_FixedLoopVar ==
    /\ Generated
    /\ fnArg.userCode = <<"x", ";">>
    /\ cmdLocal = <<<<"i_", "uuid2">>>>
    /\ ~ContainsText(fnRet.source, cmdLocal[1])
    /\ fnRet.source = Generate(fnArg, <<"i_", "uuid1">>).source
    /\ Contains(fnRet.source,
                "for (Integer i = 0; i < measurementIterations; i++) {")

\* =====================================================================
\* cmd/apex-bench: the run and compare commands
\* =====================================================================
\* cmd.CombinedOutput() of `sf --version`.
SfVersionOutcomes ==
    {[err |-> NilErr, output |-> <<"@salesforce/cli", "/2.0.0 linux-x64">>],
     [err |-> NilErr, output |-> <<"sfdx-cli/7.0.0 linux-x64">>],
     [err |-> Errorf(<<"exec: \"sf\": executable file not found in $PATH">>),
      output |-> <<>>]}

CheckSalesforceCLI(err, output) ==
    IF ~err.isNil
    THEN Errorf(<<"sf CLI not found or not working: ">> \o err.msg
                \o <<"\nPlease install Salesforce CLI">>)
    ELSE IF ~Contains(output, "@salesforce/cli")
    THEN Errorf(<<"unexpected sf CLI output: ">> \o output)
    ELSE NilErr

\* cmd.CombinedOutput() of `sf config get target-org --json`: the answer
\* flattened to lexemes, each entry of "result" between its own braces.
ConfigGetOutcomes ==
    {[err |-> Errorf(<<"exit status 1">>), output |-> <<>>],
     [err |-> NilErr, output |-> <<"Warning: update available">>],
     [err |-> NilErr, output |-> <<"{", "status", "0", "result", "[", "]", "}">>],
     [err |-> NilErr,
      output |-> <<"{", "status", "0", "result", "[",
                   "{", "name", "target-org", "}", "]", "}">>],
     [err |-> NilErr,
      output |-> <<"{", "status", "0", "result", "[",
                   "{", "name", "target-org", "value", "null", "}", "]", "}">>],
     [err |-> NilErr,
      output |-> <<"{", "status", "0", "result", "[",
                   "{", "name", "target-org", "value", "my-org", "}",
                   "]", "}">>]}

\* json.Unmarshal into a ConfigGetResponse: the Value of each entry of
\* "result", "" for an entry without the key.
UnmarshalConfigGet(text) ==
    IF text = <<>> \/ text[1] # "{" THEN [ok |-> FALSE, result |-> <<>>]
    ELSE LET starts == {p \in 2 .. Len(text) : text[p] = "{"}
             Nth(k) == CHOOSE p \in starts :
                           Cardinality({q \in starts : q < p}) = k - 1
             ValueAt(s) ==
                 LET e == IndexFrom(text, "}", s)
                     keys == {q \in s .. e : text[q] = "value"}
                 IN  IF keys = {} THEN <<>>
                     ELSE GoString(text[(CHOOSE q \in keys : TRUE) + 1])
         IN  [ok |-> TRUE,
              result |-> [k \in 1 .. Cardinality(starts) |->
                             [value |-> ValueAt(Nth(k))]]]

GetDefaultOrg(err, output) ==
    IF ~err.isNil
    THEN [org |-> <<>>,
          err |-> Errorf(<<"failed to get default org: ">> \o err.msg)]
    ELSE LET parsed == UnmarshalConfigGet(output)
         IN  IF ~parsed.ok
             THEN [org |-> <<>>,
                   err |-> Errorf(<<"failed to parse config output: ",
                                    "invalid character">>)]
             ELSE IF \/ Len(parsed.result) = 0
                     \/ parsed.result[1].value = <<>>
                     \/ parsed.result[1].value = <<"null">>
             THEN [org |-> <<>>,
                   err |-> Errorf(<<"no default org configured. ",
                                    "Run: sf org login web">>)]
             ELSE [org |-> parsed.result[1].value, err |-> NilErr]

\* GetOrg(specified), given what `sf config get` answers if it is asked.
GetOrg(specified, err, output) ==
    IF specified # <<>> THEN [org |-> specified, err |-> NilErr]
    ELSE LET def == GetDefaultOrg(err, output)
         IN  IF ~def.err.isNil
             THEN [org |-> <<>>,
                   err |-> Errorf(<<"no org specified and could not get ",
                                    "default org: ">> \o def.err.msg)]
             ELSE [org |-> def.org, err |-> NilErr]

\* What `sf org display` answers to a command.
CmdOrgDisplayOutcomes ==
    {o \in OrgDisplayOutcomes :
        /\ o.shape.status = "0" \/ ~o.err.isNil
        /\ o.shape.kind \in {"notJSON", "null", "object"}
        /\ o.shape.username # <<"">>
        /\ o.shape.connectedStatus \in {<<>>, <<"Connected">>, <<"Expired">>}}

\* strings.SplitN(bench, ":", 2)
SplitN2(text) ==
    LET p == IndexFrom(text, ":", 1)
    IN  IF p = 0 THEN <<text>>
        ELSE <<SubSeq(text, 1, p - 1), SubSeq(text, p + 1, Len(text))>>

HasSuffix(text, tok) == Len(text) > 0 /\ text[Len(text)] = tok

\* The files of the working directory, and what os.ReadFile can give for
\* a path: a failure, or the file's content.
FileNames == {<<"f", ".apex">>}
ReadFileOutcomes ==
    {[err |-> Errorf(<<"no such file or directory">>), content |-> <<>>],
     [err |-> NilErr, content |-> <<"y", ";", "\n">>],
     [err |-> NilErr, content |-> <<"\n">>]}
fileExists(path) == path \in FileNames

\* The loop of compareBenchmarks over the --bench flags, from index k on.
RECURSIVE ParseBenches(_, _, _)
ParseBenches(benches, k, benchSpecs) ==
    IF k >= Len(benches) THEN [benchSpecs |-> benchSpecs, err |-> NilErr]
    ELSE LET parts == SplitN2(benches[k + 1])
         IN  IF Len(parts) # 2
             THEN [benchSpecs |-> <<>>,
                   err |-> Errorf(<<"invalid benchmark format ">>
                                  \o Quote(benches[k + 1])
                                  \o <<", expected 'Name:code' or 'Name:file'">>)]
             ELSE LET name == TrimSpace(parts[1])
                      source == TrimSpace(parts[2])
                      isFile == HasSuffix(source, ".apex") \/ fileExists(source)
                  IN  ParseBenches(benches, k + 1,
                          Append(benchSpecs,
                                 [name |-> name,
                                  code |-> IF isFile THEN <<>> ELSE source,
                                  file |-> IF isFile THEN source ELSE <<>>]))

\* ----------------------------------------------------- command inputs
MaxCmdRuns == 2
MaxBenches == 2

CmdIterations == {0, 1}
CmdWarmups == {0 - 1, 0}
CmdOutputFormats == {"json", "table", "xml"}
CmdOrgs == {<<>>, <<"my-org">>}

RunFlags ==
    [code : {<<>>, <<" ">>, <<"x", ";">>},
     file : {<<>>} \cup FileNames,
     name : {<<"T">>, <<" ">>},
     iterations : CmdIterations, warmup : CmdWarmups,
     runs : (0 - 1) .. MaxCmdRuns, parallel : {1},
     trackHeap : {FALSE}, trackDB : {FALSE},
     org : CmdOrgs, output : CmdOutputFormats]

BenchFlags ==
    {<<"A", ":", "x", ";">>, <<"B", ":", " ">>, <<" ", ":", "x", ";">>,
     <<"A", "x">>, <<"F", ":", " ", "f", ".apex">>}

CompareFlags ==
    [benches : UNION {[1 .. n -> BenchFlags] : n \in 1 .. MaxBenches},
     iterations : CmdIterations, warmup : CmdWarmups,
     runs : (0 - 1) .. MaxCmdRuns, parallel : {1},
     trackHeap : {FALSE}, trackDB : {FALSE},
     org : {<<"my-org">>}, output : CmdOutputFormats]

\* The debug logs an execution of the code generated for `name` can give
\* back: the result line the code writes (part_002:101, 121) carries the
\* name; or a log without a result.
CmdOutputs(name) ==
    {<<"USER_DEBUG|">> \o MarkerText
         \o <<"{", KeyLexeme.name>> \o Quote(name)
         \o <<",", KeyLexeme.iterations, "1", "0", "0", "}">>,
     <<"USER_DEBUG|", "Something else">>}

\* The method of the executor called, by the run count, and its outcomes
\* when no run count is refused: it fails after some of its `sf apex run`
\* invocations, or every run gives its output.
ExecutionOutcomesUnchecked(n, name) ==
    [api : {IF n = 1 THEN "Run" ELSE "ExecuteParallel"},
     calls : 0 .. n, err : {Errorf(<<"apex execution failed">>)},
     outputs : {<<>>}]
    \cup [api : {IF n = 1 THEN "Run" ELSE "ExecuteParallel"},
          calls : {IF n < 0 THEN 0 ELSE n}, err : {NilErr},
          outputs : [1 .. n -> CmdOutputs(name)]]

\* What exec.Run (runs == 1) or exec.ExecuteParallel (otherwise) does for
\* the command: ExecuteParallel refuses a run count that is not positive
\* (executor.go:109-111); else the call fails after some of its `sf apex
\* run` invocations, or every run gives its output.
ExecutionOutcomes(n, name) ==
    IF n # 1 /\ InvalidRuns(n)
    THEN {[api |-> "ExecuteParallel", calls |-> 0,
           err |-> Errorf(<<"runs must be positive, got ">> \o Itoa(n)),
           outputs |-> <<>>]}
    ELSE [api : {IF n = 1 THEN "Run" ELSE "ExecuteParallel"},
          calls : 0 .. n, err : {Errorf(<<"apex execution failed">>)},
          outputs : {<<>>}]
         \cup [api : {IF n = 1 THEN "Run" ELSE "ExecuteParallel"},
               calls : {n}, err : {NilErr},
               outputs : [1 .. n -> CmdOutputs(name)]]

ApexRunCalls(n, org) == [k \in 1 .. n |-> <<"sf", "apex", "run">> \o org]

\* The command's local variables before the first is assigned.
\* stages, apis and written are history: the stages run so far, each
\* with the index of its benchmark; the executor methods called; and the
\* names of the results written to os.Stdout.
ZeroLocals ==
    [org |-> <<>>, benchSpecs |-> <<>>, bench |-> 0, apexCode |-> <<>>,
     outputs |-> <<>>, aggregatedResults |-> <<>>,
     stages |-> <<>>, apis |-> <<>>, written |-> <<>>]

\* The locals after the named stages have run for the benchmark at hand.
Staged(local, names) ==
    [local EXCEPT !.stages = @ \o [k \in 1 .. Len(names) |->
                                      <<names[k], local.bench>>]]

\* -------------------------------------------------- the commands' steps
CommandInit ==
    /\ ExecIdle
    /\ \/ fn = "run" /\ fnArg \in RunFlags
       \/ fn = "compare" /\ fnArg \in CompareFlags
    /\ fnDone = FALSE
    /\ fnRet = <<>>
    /\ cmdPc = "flags"
    /\ cmdLocal = ZeroLocals
    /\ sfCalls = <<>>

\* return err
Return(err) ==
    /\ fnRet' = err
    /\ fnDone' = TRUE
    /\ cmdPc' = "returned"

Goto(label) ==
    /\ cmdPc' = label
    /\ UNCHANGED <<fnRet, fnDone>>

InCommand(label) == fn \in {"run", "compare"} /\ ~fnDone /\ cmdPc = label

\* if err != nil { return err }, and the step that follows otherwise
ReturnOrGoto(err, label) ==
    IF ~err.isNil THEN Return(err) ELSE Goto(label)

\* run_test.go:222-227, compare_mock_test.go:439-441
ValidateFlags ==
    /\ InCommand("flags")
    /\ IF fn = "run"
       THEN IF fnArg.code = <<>> /\ fnArg.file = <<>>
            THEN Return(Errorf(<<"must provide either --code or --file">>))
            ELSE IF fnArg.code # <<>> /\ fnArg.file # <<>>
            THEN Return(Errorf(<<"cannot provide both --code and --file">>))
            ELSE Goto("cli")
       ELSE IF Len(fnArg.benches) < 2
            THEN Return(Errorf(<<"must provide at least 2 benchmarks to compare">>))
            ELSE Goto("cli")
    /\ UNCHANGED <<fn, fnArg, cmdLocal, sfCalls>>
    /\ UNCHANGED execVars

\* run_test.go:230-232, compare_mock_test.go:444-446
CheckCLI ==
    /\ InCommand("cli")
    /\ \E sf \in SfVersionOutcomes :
          ReturnOrGoto(CheckSalesforceCLI(sf.err, sf.output), "org")
    /\ sfCalls' = Append(sfCalls, <<"sf", "--version">>)
    /\ UNCHANGED <<fn, fnArg, cmdLocal>>
    /\ UNCHANGED execVars

\* org, err := executor.GetOrg(...) and the test of err
OrgFound(got) ==
    /\ ReturnOrGoto(got.err, "auth")
    /\ cmdLocal' = IF ~got.err.isNil THEN cmdLocal
                   ELSE [cmdLocal EXCEPT !.org = got.org]

\* run_test.go:235-241, compare_mock_test.go:449-455
LookupOrg ==
    /\ InCommand("org")
    /\ \E sf \in ConfigGetOutcomes :
          OrgFound(GetOrg(fnArg.org, sf.err, sf.output))
    /\ sfCalls' = IF fnArg.org # <<>> THEN sfCalls
                  ELSE Append(sfCalls, <<"sf", "config", "get", "target-org">>)
    /\ UNCHANGED <<fn, fnArg>>
    /\ UNCHANGED execVars

\* run_test.go:244-246, compare_mock_test.go:458-460
CheckAuth ==
    /\ InCommand("auth")
    /\ \E sf \in CmdOrgDisplayOutcomes :
          ReturnOrGoto(CheckOrgAuth(cmdLocal.org, sf.err,
                                    OrgDisplayOutput(sf.shape)),
                       IF fn = "run" THEN "generate" ELSE "benches")
    /\ sfCalls' = Append(sfCalls, <<"sf", "org", "display">> \o cmdLocal.org)
    /\ UNCHANGED <<fn, fnArg, cmdLocal>>
    /\ UNCHANGED execVars

\* The end of the loop over the --bench flags.
BenchesParsed(parsed) ==
    /\ ReturnOrGoto(parsed.err, "generate")
    /\ cmdLocal' = [cmdLocal EXCEPT !.benchSpecs = parsed.benchSpecs]

\* compare_mock_test.go:463-485
ParseBenchFlags ==
    /\ InCommand("benches")
    /\ BenchesParsed(ParseBenches(fnArg.benches, 0, <<>>))
    /\ UNCHANGED <<fn, fnArg, sfCalls>>
    /\ UNCHANGED execVars

\* The benchmark at hand: the run command's only one, or the compare
\* command's entry of index cmdLocal.bench.
CurrentBench ==
    IF fn = "run"
    THEN [name |-> fnArg.name, code |-> fnArg.code, file |-> fnArg.file]
    ELSE cmdLocal.benchSpecs[cmdLocal.bench + 1]

\* fmt.Errorf("<what>: %w", err) in the run command, and
\* fmt.Errorf("<what> for %s: %w", name, err) in the compare command
WrapFor(what, name, err) ==
    Errorf(<<what>> \o (IF fn = "run" THEN <<>> ELSE <<" for ">> \o name)
           \o <<": ">> \o err.msg)

\* apexCode, err := generator.Generate(spec) and the test of err
CodeGenerated(bench, generated) ==
    /\ ReturnOrGoto(IF generated.err.isNil THEN NilErr
                    ELSE WrapFor("failed to generate code", bench.name,
                                 generated.err),
                    "execute")
    /\ cmdLocal' = [Staged(cmdLocal, <<"generate">>)
                       EXCEPT !.apexCode = generated.source]

\* userCode := code, or the outcome of os.ReadFile when a file is named.
CodeOutcomes(bench) ==
    IF bench.file = <<>> THEN {[err |-> NilErr, content |-> bench.code]}
    ELSE ReadFileOutcomes

\* The code read for a benchmark, the CodeSpec built and generated from.
CodeRead(bench, read, loopVar) ==
    /\ IF ~read.err.isNil
       THEN /\ Return(Errorf(<<"failed to read file ">> \o bench.file
                             \o <<": ">> \o read.err.msg))
            /\ UNCHANGED cmdLocal
       ELSE CodeGenerated(bench,
                Generate([name |-> bench.name,
                          userCode |-> TrimSpace(read.content),
                          setup |-> <<>>, teardown |-> <<>>,
                          iterations |-> fnArg.iterations,
                          warmup |-> fnArg.warmup,
                          trackHeap |-> fnArg.trackHeap,
                          trackDB |-> fnArg.trackDB], loopVar))

\* run_test.go:249-273, compare_mock_test.go:500-523: read the code,
\* build the CodeSpec and generate.
GenerateCode ==
    /\ InCommand("generate")
    /\ \E read \in CodeOutcomes(CurrentBench), loopVar \in LoopVars :
          CodeRead(CurrentBench, read, loopVar)
    /\ UNCHANGED <<fn, fnArg, sfCalls>>
    /\ UNCHANGED execVars

\* What exec.Run or exec.ExecuteParallel gave back, and the test of err.
Executed(bench, ex) ==
    /\ sfCalls' = sfCalls \o ApexRunCalls(ex.calls, cmdLocal.org)
    /\ ReturnOrGoto(IF ex.err.isNil THEN NilErr
                    ELSE WrapFor("execution failed", bench.name, ex.err),
                    "parse")
    /\ cmdLocal' = [Staged(cmdLocal, <<"execute">>)
                       EXCEPT !.apis = Append(@, ex.api),
                              !.outputs = IF ~ex.err.isNil THEN @
                                          ELSE ex.outputs]

\* run_test.go:276-293, compare_mock_test.go:526-540
ExecuteCode ==
    /\ InCommand("execute")
    /\ \E ex \in ExecutionOutcomes(fnArg.runs, CurrentBench.name) :
          Executed(CurrentBench, ex)
    /\ UNCHANGED <<fn, fnArg>>
    /\ UNCHANGED execVars

\* The names of the results, in their order.
NamesOf(aggregatedResults) ==
    [k \in 1 .. Len(aggregatedResults) |-> aggregatedResults[k].name]

\* The first cell of every row PrintComparison wrote.
NamesWritten(printed) ==
    [err |-> printed.err,
     written |-> [k \in 1 .. Len(printed.rows) |-> printed.rows[k][1]]]

\* The output switch of the two commands: the error returned and the
\* names of the results written to os.Stdout.
PrintOutput(aggregatedResults) ==
    IF fnArg.output = "json"
    THEN [err |-> NilErr, written |-> NamesOf(aggregatedResults)]
    ELSE IF fnArg.output = "table"
    THEN (IF fn = "run"
          THEN [err |-> NilErr, written |-> NamesOf(aggregatedResults)]
          ELSE NamesWritten(PrintComparison(aggregatedResults)))
    ELSE [err |-> Errorf(<<"unknown output format: ", fnArg.output>>),
          written |-> <<>>]

\* The return of the output switch.
OutputWritten(all, out) ==
    /\ Return(out.err)
    /\ cmdLocal' = [Staged(cmdLocal, <<"parse", "aggregate", "report">>)
                       EXCEPT !.aggregatedResults = all,
                              !.written = out.written]

\* After the aggregate has been appended: the compare command goes on to
\* its next benchmark, and the last benchmark's results are written.
Reported(all) ==
    /\ IF fn = "compare" /\ cmdLocal.bench + 1 < Len(cmdLocal.benchSpecs)
       THEN /\ Goto("generate")
            /\ cmdLocal' = [Staged(cmdLocal, <<"parse", "aggregate">>)
                               EXCEPT !.aggregatedResults = all,
                                      !.bench = @ + 1]
       ELSE OutputWritten(all, PrintOutput(all))

\* Faulty variant: the aggregate is put in front of the earlier ones.
ResultsAggregatedPrepended(bench, aggregated) ==
    IF ~aggregated.err.isNil
    THEN /\ Return(WrapFor("failed to aggregate results", bench.name,
                           aggregated.err))
         /\ cmdLocal' = Staged(cmdLocal, <<"parse", "aggregate">>)
    ELSE Reported(<<[aggregated.agg EXCEPT !.warmup = fnArg.warmup]>>
                  \o cmdLocal.aggregatedResults)

\* aggregated, err := stats.Aggregate(results) and the test of err
ResultsAggregated(bench, aggregated) ==
    IF ~aggregated.err.isNil
    THEN /\ Return(WrapFor("failed to aggregate results", bench.name,
                           aggregated.err))
         /\ cmdLocal' = Staged(cmdLocal, <<"parse", "aggregate">>)
    ELSE Reported(Append(cmdLocal.aggregatedResults,
                         [aggregated.agg EXCEPT !.warmup = fnArg.warmup]))

\* results, err := parser.ParseMultipleResults(outputs) and the test of err
ResultsParsed(bench, parsed) ==
    IF ~parsed.err.isNil
    THEN /\ Return(WrapFor("failed to parse results", bench.name, parsed.err))
         /\ cmdLocal' = Staged(cmdLocal, <<"parse">>)
    ELSE ResultsAggregated(bench, Aggregate(parsed.results))

\* run_test.go:296-320, compare_mock_test.go:543-568: parse, aggregate,
\* then go on to the next benchmark or write the output.
ReportResults ==
    /\ InCommand("parse")
    /\ ResultsParsed(CurrentBench, ParseMultipleResults(cmdLocal.outputs))
    /\ UNCHANGED <<fn, fnArg, sfCalls>>
    /\ UNCHANGED execVars

CommandNext ==
    \/ ValidateFlags
    \/ CheckCLI
    \/ LookupOrg
    \/ CheckAuth
    \/ ParseBenchFlags
    \/ GenerateCode
    \/ ExecuteCode
    \/ ReportResults

CommandSpec == CommandInit /\ [][CommandNext]_vars

\* ---------------------------------------------- claims on the commands
CommandReturned == fn \in {"run", "compare"} /\ fnDone

\* The command returned the error of the spec's validation.
ValidationErrorReturned ==
    /\ CommandReturned
    /\ ~fnRet.isNil
    /\ fnRet.msg[1] = "failed to generate code"

\* C20: in the run and compare commands a malformed benchmark spec is
\* refused with a validation error before any external interaction: no
\* sf invocation has happened when the validation error is returned.
C20_ValidationBeforeExternal ==
    ValidationErrorReturned => sfCalls = <<>>

\* The run command refused 0 iterations after the version check and the
\* authentication check of the target had been made.
C20_Witness ==
    /\ ValidationErrorReturned
    /\ fn = "run"
    /\ fnArg.iterations = 0
    /\ sfCalls = <<<<"sf", "--version">>, <<"sf", "org", "display", "my-org">>>>

\* The compare command refused its second benchmark after the first one
\* had been executed.
C20_WitnessCompare ==
    /\ ValidationErrorReturned
    /\ fn = "compare"
    /\ cmdLocal.bench = 1
    /\ \E k \in 1 .. Len(sfCalls) : sfCalls[k][2] = "apex"

\* =====================================================================
\* pkg/executor: the gate, the slots and the temporary files
\* =====================================================================
\* The tasks queued by sem.Acquire.
Queued == {waiters[k] : k \in 1 .. Len(waiters)}

\* C24: every task that acquired a permit gives it back on every exit
\* path: the permits held are always as many as the tasks between acquire
\* and release, a queued task holds none, and none is held when
\* ExecuteParallel returns.
C24_PermitsBalanced ==
    api = "ExecuteParallel" =>
        /\ semCur = Cardinality(InProgress)
        /\ semCur <= semSize
        /\ Queued = {t \in Tasks : pc[t] = "waiting"}
        /\ ParallelReturned => semCur = 0 /\ waiters = <<>>

\* A run has failed and given its permit to the task that was queued
\* behind it.
C24_Witness ==
    /\ api = "ExecuteParallel"
    /\ semSize = 1
    /\ pc[0] \in {"wgdone", "done"}
    /\ ~runReturn[0].err.isNil
    /\ pc[1] = "exec"
    /\ semCur = 1

\* The zero values make([]string, runs) and make([]error, runs) give.
SlotUntouched(t) == results[t + 1] = <<>> /\ errors[t + 1].isNil

\* The slot of task t holds what its own Run returned: the output or the
\* error, never both.
SlotOwnReturn(t) ==
    IF runReturn[t].err.isNil
    THEN results[t + 1] = runReturn[t].output /\ errors[t + 1].isNil
    ELSE results[t + 1] = <<>> /\ errors[t + 1] = runReturn[t].err

\* C25: no two tasks write the same slot: the slots of a task are
\* untouched until its own Run has returned and hold that Run's output
\* or error from then on, and the caller reads the slices only when all
\* tasks have finished.
C25_OwnSlotOnly ==
    (api = "ExecuteParallel" /\ runs > 0 /\ mainPc # "call") =>
        /\ \A t \in RunIndices :
              IF t \in RunReturned THEN SlotOwnReturn(t) ELSE SlotUntouched(t)
        /\ mainPc \in {"collect", "returned"} =>
              \A t \in RunIndices : pc[t] = "done"

\* Task 1 has stored its output while task 0, still executing, has
\* stored nothing, and task 2 has stored an error.
C25_Witness ==
    /\ api = "ExecuteParallel"
    /\ runs = 3
    /\ mainPc = "launch"
    /\ pc[0] = "exec"
    /\ 1 \in RunReturned
    /\ results[2] # <<>>
    /\ 2 \in RunReturned
    /\ ~errors[3].isNil
    /\ SlotUntouched(0)

\* The scheduler does not stop while a goroutine can take a step, and a
\* subprocess that has been started completes: some enabled step is
\* eventually taken.  Fairness to each goroutine implies this.
FairSpec == Spec /\ WF_vars(Next)

\* C26: under fair scheduling ExecuteParallel eventually returns, for
\* every run count above 0 and every maxConcurrent.
C26_EventuallyReturns ==
    <>(api = "ExecuteParallel" /\ runs > 0 => mainPc = "returned")

\* ExecuteParallel has returned although its limit was not positive and
\* it had more runs than permits.
C26_Witness ==
    /\ ParallelReturned
    /\ runs = MaxRuns
    /\ maxConcurrent <= 0
    /\ \A t \in RunIndices : runCalls[t] = 1

\* C27: during ExecuteParallel the temporary files that exist are at
\* most maxConcurrent, or 1 when maxConcurrent <= 0.
C27_TempFilesBounded ==
    (api = "ExecuteParallel" /\ runs > 0) =>
        /\ maxConcurrent >= 1 => Cardinality(files) <= maxConcurrent
        /\ maxConcurrent <= 0 => Cardinality(files) <= 1
        /\ \A t \in Tasks : tempFile[t] # {} => t \in InProgress

\* As many files as the limit allows exist while a third task is queued.
C27_Witness ==
    /\ api = "ExecuteParallel"
    /\ maxConcurrent = 2
    /\ Cardinality(files) = 2
    /\ waiters # <<>>

\* C28: the runs in progress have different temporary files, a run's
\* file exists for as long as its subprocess executes, and the files
\* that exist are those of the runs in progress (a cleanup has taken
\* away no one else's).
C28_OwnTempFile ==
    /\ \A t, u \in Callers : t # u => tempFile[t] \cap tempFile[u] = {}
    /\ \A t \in Callers :
          pc[t] = "exec" => Cardinality(tempFile[t]) = 1 /\ tempFile[t] \subseteq files
    /\ files = UNION {tempFile[t] : t \in Callers}

\* One run has returned and removed its file while another, which began
\* earlier, still executes with its own.
C28_Witness ==
    /\ api = "ExecuteParallel"
    /\ pc[0] = "exec"
    /\ tempFile[0] \subseteq files
    /\ tempFile[0] # {}
    /\ 1 \in RunReturned
    /\ runReturn[1].err.isNil
    /\ tempFile[1] = {}

\* =====================================================================
\* pkg/parser: the loop of ParseResult, one iteration at a time
\* =====================================================================
\* Faulty variant: the search resumes at the marker just examined.
ParseIterationSamePosition(debugOutput, searchPos) ==
    LET found == Index(From(debugOutput, searchPos), Marker)
        markerIdx == found + searchPos
        remaining == From(debugOutput, markerIdx + Len(MarkerText))
        jsonEnd == BraceScan(remaining)
        parsed == UnmarshalResult(Upto(remaining, jsonEnd))
    IN  IF found = 0 - 1
        THEN [exit |-> "break", markerIdx |-> 0 - 1, searchPos |-> searchPos,
              result |-> ZeroResult]
        ELSE IF jsonEnd # 0 - 1 /\ parsed.ok
        THEN [exit |-> "return", markerIdx |-> markerIdx,
              searchPos |-> searchPos, result |-> parsed.result]
        ELSE [exit |-> "continue", markerIdx |-> markerIdx,
              searchPos |-> markerIdx, result |-> ZeroResult]

\* One iteration of the loop entered with searchPos: how it leaves the
\* body, the marker it examined (-1 if none), and searchPos afterwards.
ParseIteration(debugOutput, searchPos) ==
    LET found == Index(From(debugOutput, searchPos), Marker)
        markerIdx == found + searchPos
        remaining == From(debugOutput, markerIdx + Len(MarkerText))
        jsonEnd == BraceScan(remaining)
        parsed == UnmarshalResult(Upto(remaining, jsonEnd))
    IN  IF found = 0 - 1
        THEN [exit |-> "break", markerIdx |-> 0 - 1, searchPos |-> searchPos,
              result |-> ZeroResult]
        ELSE IF jsonEnd # 0 - 1 /\ parsed.ok
        THEN [exit |-> "return", markerIdx |-> markerIdx,
              searchPos |-> searchPos, result |-> parsed.result]
        ELSE [exit |-> "continue", markerIdx |-> markerIdx,
              searchPos |-> markerIdx + Len(MarkerText), result |-> ZeroResult]

MaxLoopSegments == 3

\* Texts for the loop: noise, three malformed occurrences of the marker
\* (no brace, unterminated object, invalid JSON) and a valid one.
LoopSegments ==
    {<<"USER_DEBUG|">>,
     <<Marker, "' + resultJson);">>,
     <<Marker, "{", KeyLexeme.name>>,
     <<Marker, "{", KeyLexeme.name, "\"", "Bad", "\"", ",", "invalid:", ",",
       "}">>,
     MarkerText \o PayloadA}

LoopOutputs ==
    {Flatten(segs) :
        segs \in UNION {[1 .. n -> LoopSegments] : n \in 0 .. MaxLoopSegments}}

\* The iteration entered at each position of each text, computed once.
IterationAt ==
    [debugOutput \in LoopOutputs |->
        [searchPos \in 0 .. Len(debugOutput) |->
            ParseIteration(debugOutput, searchPos)]]

ParseLoopInit ==
    /\ ExecIdle
    /\ fn = "ParseResult loop"
    /\ fnArg \in LoopOutputs
    /\ fnDone = FALSE
    /\ fnRet = <<>>
    /\ cmdPc = "for"
    /\ cmdLocal = [searchPos |-> 0, iterations |-> 0, examined |-> <<>>]
    /\ sfCalls = <<>>

\* What an iteration does to the function's state.
Iterated(it) ==
    /\ cmdLocal' = [searchPos |-> it.searchPos,
                    iterations |-> cmdLocal.iterations + 1,
                    examined |-> IF it.exit = "break" THEN cmdLocal.examined
                                 ELSE Append(cmdLocal.examined, it.markerIdx)]
    /\ fnDone' = (it.exit # "continue")
    /\ cmdPc' = IF it.exit = "continue" THEN "for" ELSE "returned"
    /\ fnRet' = IF it.exit = "return"
                THEN [result |-> it.result, err |-> NilErr]
                ELSE IF it.exit = "break" THEN NoValidResult(fnArg)
                ELSE fnRet

\* parser_test.go:210-250: one pass through the body of the for loop.
ParseIterate ==
    /\ fn = "ParseResult loop"
    /\ ~fnDone
    /\ Iterated(IterationAt[fnArg][cmdLocal.searchPos])
    /\ UNCHANGED <<fn, fnArg, sfCalls>>
    /\ UNCHANGED execVars

\* The loop runs on its own goroutine without blocking.
ParseLoopSpec == ParseLoopInit /\ [][ParseIterate]_vars /\ WF_vars(ParseIterate)

\* ------------------------------------------------- claims on the loop
\* The loop's state is in order: searchPos is within the text, the
\* markers examined are occurrences of the marker at increasing
\* positions, and the iterations are at most the occurrences plus one.
LoopInOrder(local) ==
    /\ local.searchPos \in 0 .. Len(fnArg)
    /\ \A k \in 1 .. Len(local.examined) :
          /\ local.examined[k] + 1 \in MarkerPositions(fnArg)
          /\ k > 1 => local.examined[k - 1] < local.examined[k]
    /\ local.iterations <= Cardinality(MarkerPositions(fnArg)) + 1

\* C29: ParseResult terminates on every text: every iteration that does
\* not leave the loop moves searchPos forward, past the marker it
\* examined; no occurrence is examined twice; the iterations are at most
\* the number of occurrences plus one; and the loop ends with the value
\* ParseResult returns.
C29_LoopTerminates ==
    /\ [][/\ LoopInOrder(cmdLocal')
          /\ ~fnDone' =>
                /\ cmdLocal'.searchPos > cmdLocal.searchPos
                /\ cmdLocal'.searchPos >
                       cmdLocal'.examined[Len(cmdLocal'.examined)]
          /\ fnDone' => fnRet' = ParseResult(fnArg)]_vars
    /\ <>fnDone

\* The loop ended after it had examined three occurrences and found no
\* marker in a fourth iteration.
C29_Witness ==
    /\ fn = "ParseResult loop"
    /\ fnDone
    /\ Len(cmdLocal.examined) = 3
    /\ cmdLocal.iterations = 4
    /\ ~fnRet.err.isNil

\* =====================================================================
\* cmd/apex-bench: the pipeline of the run and compare commands
\* =====================================================================
Pipeline == <<"generate", "execute", "parse", "aggregate">>

\* The benchmarks of the command: one for run, the parsed --bench flags
\* for compare.
BenchCount == IF fn = "run" THEN 1 ELSE Len(cmdLocal.benchSpecs)

\* The k-th stage of a command over n benchmarks that runs to its end.
StageInOrder(k, n) ==
    IF k = 4 * n + 1 THEN <<"report", n - 1>>
    ELSE <<Pipeline[((k - 1) % 4) + 1], (k - 1) \div 4>>

\* The stage whose failure an error message reports.
StageOfFailure ==
    [m \in {"failed to generate code", "execution failed",
            "failed to parse results", "failed to aggregate results",
            "unknown output format: ", "no results to display"} |->
        CASE m = "failed to generate code" -> "generate"
          [] m = "execution failed" -> "execute"
          [] m = "failed to parse results" -> "parse"
          [] m = "failed to aggregate results" -> "aggregate"
          [] OTHER -> "report"]

LastStage == cmdLocal.stages[Len(cmdLocal.stages)][1]

\* The names of the benchmarks in the order they were given.
InputNames ==
    IF fn = "run" THEN <<fnArg.name>>
    ELSE [k \in 1 .. Len(cmdLocal.benchSpecs) |-> cmdLocal.benchSpecs[k].name]

C23_WitnessFailure ==
    /\ fn = "compare"
    /\ fnDone
    /\ fnRet.msg[1] = "execution failed"
    /\ cmdLocal.stages[Len(cmdLocal.stages)] = <<"execute", 1>>
    /\ Len(cmdLocal.aggregatedResults) = 1
    /\ cmdLocal.written = <<>>

ApexRuns == {k \in 1 .. Len(sfCalls) : sfCalls[k][2] = "apex"}

\* C30: Aggregate is never given an empty sequence and every aggregate is
\* of as many results as runs were requested: one run is a direct call
\* of Run, any other count goes to ExecuteParallel, the parse stage is
\* entered with exactly `runs` outputs, and with a run count that is not
\* positive the execution stage fails, without an `sf apex run`, before
\* any parsing or aggregation.
C30_AggregatesAllRuns ==
    fn \in {"run", "compare"} =>
        /\ fnDone /\ ~fnRet.isNil =>
              fnRet.msg[1] # "failed to aggregate results"
        /\ \A k \in 1 .. Len(cmdLocal.aggregatedResults) :
              /\ cmdLocal.aggregatedResults[k].runs = fnArg.runs
              /\ Len(cmdLocal.aggregatedResults[k].rawResults) = fnArg.runs
        /\ \A k \in 1 .. Len(cmdLocal.apis) :
              cmdLocal.apis[k] = IF fnArg.runs = 1 THEN "Run"
                                 ELSE "ExecuteParallel"
        /\ cmdPc = "parse" =>
              /\ fnArg.runs >= 1
              /\ Len(cmdLocal.outputs) = fnArg.runs
        /\ fnArg.runs = 1 => Cardinality(ApexRuns) <= Len(cmdLocal.apis)
        /\ fnArg.runs <= 0 =>
              /\ \A k \in 1 .. Len(cmdLocal.stages) :
                    cmdLocal.stages[k][1] \in {"generate", "execute"}
              /\ cmdLocal.apis # <<>> =>
                    /\ fnDone
                    /\ fnRet.msg[1] = "execution failed"
                    /\ LastStage = "execute"
              /\ ApexRuns = {}

\* The run command was asked for 0 runs: ExecuteParallel refused, and the
\* command returned after the stages generate and execute.
C30_Witness ==
    /\ fn = "run"
    /\ fnArg.runs = 0
    /\ fnDone
    /\ fnRet.msg[1] = "execution failed"
    /\ cmdLocal.stages = <<<<"generate", 0>>, <<"execute", 0>>>>
    /\ cmdLocal.apis = <<"ExecuteParallel">>

\* The compare command aggregated two runs of each of two benchmarks.
C30_WitnessParallel ==
    /\ fn = "compare"
    /\ fnArg.runs = 2
    /\ fnDone
    /\ fnRet.isNil
    /\ cmdLocal.apis = <<"ExecuteParallel", "ExecuteParallel">>
    /\ Len(cmdLocal.aggregatedResults) = 2
    /\ cmdLocal.aggregatedResults[2].runs = 2

====
